---- MODULE Spec2Model ----
(***************************************************************************)
(* State-machine model of tiktok_uploader: the command line entry point    *)
(* (cli.main), the batch runner (upload.upload_videos) and the upload form *)
(* controller (upload.complete_upload_form) with its file-injection worker *)
(* thread.  The browser, the page and the file system are the environment: *)
(* every call into them whose outcome the code branches on is a            *)
(* nondeterministic choice over the outcomes the code distinguishes.       *)
(***************************************************************************)
EXTENDS Naturals, Integers, Sequences, FiniteSets

\* ---------------------------------------------------------------- bounds
MaxVideos == 2
MaxRetries == 1

\* ------------------------------------------------------ program constants
\* upload_videos(num_retries: int = 1): the value a command-line run uses
DefaultNumRetries == 1
\* _go_to_upload: max_retries = 3
go_to_upload_max_retries == 3

\* ------------------------------------------------------------ file system
VideoPaths == {"a.mp4", "missing.mp4"}
CliVideoArgs == {"a.mp4", "missing.mp4", "a.txt"}
CookieArgs == {"", "cookies.txt", "nocookies.txt"}
ProxyArgs == {"", "host:8080", "user:pw@host:8080", "host"}
InitialFiles == {"a.mp4", "a.txt", "cookies.txt"}
supported_file_types == {"mp4"}

NoArgs == [video |-> "", cookies |-> "", sessionid |-> FALSE,
           username |-> FALSE, password |-> FALSE, proxy |-> ""]

CliArgs == [video : CliVideoArgs, cookies : CookieArgs, sessionid : BOOLEAN,
            username : BOOLEAN, password : BOOLEAN, proxy : ProxyArgs]

VARIABLES
    caller,            \* "cli": cli.main drives upload_video; "lib": upload_videos is called directly
    args,              \* the parsed command line (cli only)
    fs,                \* the paths that exist now
    videos,            \* upload_videos: the batch, a sequence of paths
    proxy,             \* upload_videos: "none" or "set"
    browser_agent,     \* upload_videos: TRUE when the caller supplied a driver
    quit_on_end,       \* config["quit_on_end"]
    num_retries,       \* upload_videos: num_retries
    skip_split_window, \* upload_videos: skip_split_window
    pc,                \* position of the orchestrating thread
    error,             \* the exception that left upload_videos (or main's try), "none" if none
    driver,            \* Browser Handle: "none", "open", "quit"
    idx,               \* upload_videos: index of the video of the current loop iteration
    failed,            \* upload_videos: the failed list (indices into videos)
    retries_left,      \* complete_upload_form: num_retries of the current frame
    last_error,        \* complete_upload_form: the exception e caught by the current frame
    upload_thread,     \* worker of the current frame: "none", "running", "stored", "finished"
    upload_complete_event, \* threading.Event of the current frame
    upload_success,    \* upload_success[0]
    upload_error,      \* upload_error[0]: "none" or the exception the worker caught
    stale_workers,     \* workers of abandoned frames that still run _set_video on the driver
    post_outcome,      \* what the last _post_video of the current task observed
    exit_status,       \* status the process exits with (cli only, at pc = "exited")
    \* ---- history, read by the properties only
    get_browser_calls, \* calls of get_browser
    auth_calls,        \* calls of auth.authenticate_agent
    proxy_result,      \* "unchecked", "working", "broken"
    processed,         \* indices whose loop iteration has started, in order
    delegated,         \* indices for which complete_upload_form was called by upload_videos
    raised_tasks,      \* indices for which complete_upload_form raised into upload_videos
    executions,        \* executions of the step sequence for the current task
    raised_executions, \* executions for the current task that ended in the except clause
    carried,           \* the error FailedToUpload carries out of complete_upload_form
    form_result,       \* "none", "running", "returned", "raised" for the current task
    steps,             \* the steps the current frame of complete_upload_form has called, in order
    step_outcome,      \* what the best-effort step that has just returned met, "none" otherwise
    post_clicks,       \* clicks on the post button that succeeded, for the current task
    complete_found,    \* _set_video of the current frame: complete_found
    on_complete_calls  \* the tasks on_complete was called with, in order

\* ---- state of the credential and cookie-file component (auth.py, utils.py)
VARIABLES
    cookie_parser,     \* which get_cookies is applied
    cookie_input,      \* the cookie source it is applied to
    cookie_pc,         \* "idle", "call", "returned"
    cookie_result      \* the list get_cookies returned

cookie_vars == <<cookie_parser, cookie_input, cookie_pc, cookie_result>>

VARIABLES
    auth_revision,     \* "package" (tiktok_uploader/auth.py) or "root" (auth.py)
    auth_args,         \* the arguments AuthBackend is constructed with
    auth_pc,           \* "idle", "call", "constructed", "raised"
    auth_cookies,      \* self.cookies of the constructed object
    agent_pc,          \* authenticate_agent: "idle", "login", "login_poll", "login_url_wait",
                       \* "add_cookies", "returned", "raised"
    agent_result,      \* what authenticate_agent returned or raised, "none" before
    login_result,      \* what login returned or raised, "none" before
    login_calls,       \* calls of login
    login_polls,       \* login: passes through the body of the polling loop
    logged_in,         \* the browser holds the cookie_of_interest
    cookies_offered    \* the cookies passed to driver.add_cookie, in order

auth_vars == <<auth_revision, auth_args, auth_pc, auth_cookies, agent_pc, agent_result,
               login_result, login_calls, login_polls, logged_in, cookies_offered>>
\* what no step of authenticate_agent assigns
agent_frame == <<auth_revision, auth_args, auth_pc>>

\* ---- state of one page's interactivity settings (upload._set_interactivity)
VARIABLES
    inter_desired,     \* the comment, stitch, duet arguments
    inter_toggles,     \* the state of the three toggles on the page
    inter_start,       \* their state when the current call began
    inter_pc,          \* "idle", "call", "show_more", a toggle, "done"
    inter_clicks,      \* toggle clicks of the current call
    inter_calls        \* calls of _set_interactivity begun on this page

inter_vars == <<inter_desired, inter_toggles, inter_start, inter_pc, inter_clicks,
                inter_calls>>

\* the state of the components upload_videos does not touch
\* ---- state of one caption being typed (upload._set_description)
VARIABLES
    caption_raw,       \* the description argument, a sequence of characters
    caption_text,      \* the local description once cleaned and truncated
    caption_pc,        \* "idle", "call", "find_field", "typing", "fallback", "done", "post_video"
    caption_sent,      \* the texts sent to the caption field since it was cleared
    typed              \* one record per word the typing loop has handled: the word, what
                       \* the page showed for it, the arguments of its send_keys calls

caption_vars == <<caption_raw, caption_text, caption_pc, caption_sent, typed>>

\* ---- state of one _convert_videos_dict call (upload._convert_videos_dict)
VARIABLES
    videos_list_of_dictionaries,  \* the caller's dictionaries, as they are now
    dictionaries_at_call,         \* the same dictionaries as they were at the call
    return_list,                  \* the dictionaries built so far
    convert_pc                    \* "idle", "call", "loop", "returned", "raised"

convert_vars == <<videos_list_of_dictionaries, dictionaries_at_call, return_list,
                  convert_pc>>

\* ---- state of one lookup over an ordered selector list (upload._set_description,
\* ---- upload._post_video)
VARIABLES
    selector_list,     \* "none", "description_selectors", "post_selectors"
    page,              \* page[i]: what the i-th selector matches on the page
    selector_i,        \* index of the selector the loop is at
    desc_element,      \* _set_description: desc_element, 0 (None) or the index of the
                       \* selector whose match it holds
    post_button,       \* _post_video: post_button, likewise
    lookup_pc,         \* "idle", "loop", "after_loop", "found", "not_found", and for the
                       \* click on the post button "clicking", "clicked", "click_failed"
    click_raises,      \* click_raises[m]: click method m raises on this page
    clicks_tried       \* the click methods called on post_button, in order

lookup_vars == <<selector_list, page, selector_i, desc_element, post_button, lookup_pc,
                 click_raises, clicks_tried>>

aux_vars == <<cookie_vars, auth_vars, inter_vars, caption_vars, convert_vars, lookup_vars>>

\* ---- what the video dictionaries hold besides path and description
VARIABLES
    video_schedules    \* video_schedules[i]: the publish time task i asks for

upload_vars == <<video_schedules, caller, args, fs, videos, proxy, browser_agent, quit_on_end, num_retries,
          skip_split_window, pc, error, driver, idx, failed, retries_left, last_error,
          upload_thread, upload_complete_event, upload_success, upload_error,
          stale_workers, post_outcome, exit_status, get_browser_calls, auth_calls,
          proxy_result, processed, delegated, raised_tasks, executions, raised_executions,
          carried, form_result, steps, step_outcome, post_clicks, complete_found,
          on_complete_calls>>

vars == <<aux_vars, upload_vars>>

\* what no step of _set_interactivity assigns
inter_frame == <<inter_desired, upload_vars, cookie_vars, auth_vars, caption_vars,
                 convert_vars, lookup_vars>>
\* what no step of _set_description assigns
caption_frame == <<caption_raw, upload_vars, cookie_vars, auth_vars, inter_vars,
                   convert_vars, lookup_vars>>
\* what no step of _convert_videos_dict assigns
convert_frame == <<dictionaries_at_call, upload_vars, cookie_vars, auth_vars, inter_vars,
                   caption_vars, lookup_vars>>
\* what no step of a selector loop assigns
lookup_frame == <<selector_list, page, click_raises, upload_vars, cookie_vars, auth_vars,
                  inter_vars, caption_vars, convert_vars>>

\* the parameters of a run: never assigned after Init
inputs == <<caller, args, browser_agent, quit_on_end, num_retries, skip_split_window,
            aux_vars, video_schedules>>
\* the parameters and the log of the callback, which only the end of the loop body writes
params == <<inputs, on_complete_calls>>
\* the state of one complete_upload_form call tree
form_cells == <<retries_left, last_error, upload_thread, upload_complete_event,
                upload_success, upload_error, post_outcome, executions, raised_executions,
                carried, form_result, post_clicks, complete_found>>
form_vars == <<form_cells, steps, step_outcome>>
\* the state of upload_videos outside the controller
batch_vars == <<driver, idx, failed, get_browser_calls, auth_calls, proxy_result,
                processed, delegated, raised_tasks>>

Batches == UNION {[1..n -> VideoPaths] : n \in 0..MaxVideos}

\* ---------------------------------------------------------- pure helpers
\* upload._check_valid_path
check_valid_path(path) == path \in fs

\* utils.validate_video_file: the path ends with a supported extension
Extension(path) ==
    CASE path = "a.mp4" -> "mp4"
      [] path = "missing.mp4" -> "mp4"
      [] path = "a.txt" -> "txt"
      [] OTHER -> ""
validate_video_file(path) == Extension(path) \in supported_file_types

\* cli.parse_proxy: "none" (no proxy), "set" (a proxy dict) or "ValueError"
parse_proxy(proxy_raw) ==
    CASE proxy_raw = "" -> "none"
      [] proxy_raw = "host:8080" -> "set"
      [] proxy_raw = "user:pw@host:8080" -> "set"
      [] OTHER -> "ValueError"

\* cli.validate_uploader_args: "ok" or the exception it raises
auth_methods(a) ==
    (IF a.cookies # "" THEN 1 ELSE 0) + (IF a.sessionid THEN 1 ELSE 0)
    + (IF a.username /\ a.password THEN 1 ELSE 0)
validate_uploader_args(a) ==
    IF ~check_valid_path(a.video) THEN "FileNotFoundError"
    ELSE IF ~validate_video_file(a.video) THEN "ValueError"
    ELSE IF auth_methods(a) = 0 THEN "ValueError"
    ELSE IF auth_methods(a) > 1 THEN "ValueError"
    ELSE IF a.cookies # "" /\ ~check_valid_path(a.cookies) THEN "FileNotFoundError"
    ELSE IF (a.username /\ ~a.password) \/ (a.password /\ ~a.username) THEN "ValueError"
    ELSE "ok"

\* mutant of convert_videos_dict: nothing is checked
convert_videos_dict_Unchecked(vs) == "ok"

\* upload._convert_videos_dict: "ok" or the RuntimeError it raises
convert_videos_dict(vs) ==
    IF Len(vs) = 0 THEN "RuntimeError"
    ELSE IF \E i \in 1..Len(vs) : ~check_valid_path(vs[i]) THEN "RuntimeError"
    ELSE "ok"

\* ------------------------------------------------------------------ Init
InitCommon ==
    /\ fs = InitialFiles
    /\ quit_on_end \in BOOLEAN
    /\ error = "none"
    /\ driver = "none"
    /\ idx = 0
    /\ failed = <<>>
    /\ retries_left = 0
    /\ last_error = "none"
    /\ upload_thread = "none"
    /\ upload_complete_event = FALSE
    /\ upload_success = FALSE
    /\ upload_error = "none"
    /\ stale_workers = 0
    /\ post_outcome = "none"
    /\ exit_status = 0
    /\ get_browser_calls = 0
    /\ auth_calls = 0
    /\ proxy_result = "unchecked"
    /\ processed = <<>>
    /\ delegated = {}
    /\ raised_tasks = {}
    /\ executions = 0
    /\ raised_executions = 0
    /\ carried = "none"
    /\ form_result = "none"
    /\ steps = <<>>
    /\ step_outcome = "none"
    /\ post_clicks = 0
    /\ complete_found = FALSE
    /\ on_complete_calls = <<>>

\* a direct call of upload_videos(videos, auth, proxy, browser_agent, num_retries, ...)
InitLib ==
    /\ caller = "lib"
    /\ args = NoArgs
    /\ videos \in Batches
    /\ proxy \in {"none", "set"}
    /\ browser_agent \in BOOLEAN
    /\ num_retries \in 0..MaxRetries
    /\ skip_split_window \in BOOLEAN
    /\ pc = "convert"

\* the process started from the command line: cli.main
InitCli ==
    /\ caller = "cli"
    /\ args \in CliArgs
    /\ videos = <<>>
    /\ proxy = "none"
    /\ browser_agent = FALSE
    /\ num_retries = DefaultNumRetries
    /\ skip_split_window = FALSE
    /\ pc = "cli_main"

NoSource == [given |-> FALSE, lines |-> <<>>]

Toggles == {"comment", "stitch", "duet"}

\* every component but the active one is at rest: not called, nothing held
ComponentsIdle(active) ==
    /\ IF active = "get_cookies" THEN TRUE
       ELSE /\ cookie_parser = "none"
            /\ cookie_input = <<>>
            /\ cookie_pc = "idle"
            /\ cookie_result = [raised |-> FALSE, cookies |-> <<>>]
    /\ IF active = "AuthBackend" THEN TRUE
       ELSE /\ auth_revision = "none"
            /\ auth_args = [username |-> FALSE, password |-> FALSE, cookies_list |-> <<>>,
                            cookies |-> NoSource, cookies_str |-> <<>>,
                            sessionid |-> FALSE]
            /\ auth_pc = "idle"
            /\ auth_cookies = <<>>
            /\ agent_pc = "idle"
            /\ agent_result = "none"
            /\ login_result = "none"
            /\ login_calls = 0
            /\ login_polls = 0
            /\ logged_in = FALSE
            /\ cookies_offered = <<>>
    /\ IF active = "_set_interactivity" THEN TRUE
       ELSE /\ inter_desired = [t \in Toggles |-> TRUE]
            /\ inter_toggles = [t \in Toggles |-> TRUE]
            /\ inter_start = [t \in Toggles |-> TRUE]
            /\ inter_pc = "idle"
            /\ inter_clicks = 0
            /\ inter_calls = 0
    /\ IF active = "_set_description" THEN TRUE
       ELSE /\ caption_raw = <<>>
            /\ caption_text = <<>>
            /\ caption_pc = "idle"
            /\ caption_sent = <<>>
            /\ typed = <<>>
    /\ IF active = "_convert_videos_dict" THEN TRUE
       ELSE /\ videos_list_of_dictionaries = <<>>
            /\ dictionaries_at_call = <<>>
            /\ return_list = <<>>
            /\ convert_pc = "idle"
    /\ IF active = "selectors" THEN TRUE
       ELSE /\ selector_list = "none"
            /\ page = <<>>
            /\ selector_i = 0
            /\ desc_element = 0
            /\ post_button = 0
            /\ lookup_pc = "idle"
            /\ click_raises = <<>>
            /\ clicks_tried = <<>>

\* upload_videos not called
UploadIdle ==
    /\ InitCommon
    /\ video_schedules = <<>>
    /\ quit_on_end = FALSE
    /\ caller = "none"
    /\ args = NoArgs
    /\ videos = <<>>
    /\ proxy = "none"
    /\ browser_agent = FALSE
    /\ num_retries = 0
    /\ skip_split_window = FALSE
    /\ pc = "idle"

AuxIdle == ComponentsIdle("upload_videos")

\* no task asks for a publish time
Unscheduled == video_schedules = [i \in 1..Len(videos) |-> "none"]

Init == InitCommon /\ (InitLib \/ InitCli) /\ AuxIdle /\ Unscheduled

\* ------------------------------------------------------------- cli.main
\* auth.AuthBackend.__init__ as upload_video calls it: "ok" or "InsufficientAuth".
\* cookie_rows is TRUE when get_cookies parsed at least one row from the cookie file.
auth_backend_init(a, cookie_rows) ==
    IF (a.username /\ ~a.password) \/ (a.password /\ ~a.username) THEN "InsufficientAuth"
    ELSE IF ~( (a.cookies # "" /\ cookie_rows) \/ a.sessionid
               \/ (a.username /\ a.password) ) THEN "InsufficientAuth"
    ELSE "ok"

\* main: get_uploader_args, validate_uploader_args, parse_proxy
CliValidate ==
    /\ pc = "cli_main"
    /\ IF validate_uploader_args(args) # "ok"
         THEN /\ error' = validate_uploader_args(args)
              /\ pc' = "main_except"
              /\ UNCHANGED proxy
         ELSE IF parse_proxy(args.proxy) = "ValueError"
         THEN /\ error' = "ValueError"
              /\ pc' = "main_except"
              /\ UNCHANGED proxy
         ELSE /\ proxy' = parse_proxy(args.proxy)
              /\ pc' = "upload_video"
              /\ UNCHANGED error
    /\ UNCHANGED <<params, fs, videos, batch_vars, form_vars, stale_workers, exit_status>>

\* upload_video: builds the AuthBackend and the one-element batch, calls upload_videos
UploadVideo ==
    /\ pc = "upload_video"
    /\ \E cookie_rows \in BOOLEAN :
         IF auth_backend_init(args, cookie_rows) = "ok"
         THEN /\ videos' = <<args.video>>
              /\ pc' = "convert"
              /\ UNCHANGED error
         ELSE /\ error' = auth_backend_init(args, cookie_rows)
              /\ pc' = "main_except"
              /\ UNCHANGED videos
    /\ UNCHANGED <<params, fs, proxy, batch_vars, form_vars, stale_workers, exit_status>>

\* main: "except Exception" around the whole run: sys.exit(1)
CliFatal ==
    /\ \/ pc = "main_except"
       \/ caller = "cli" /\ pc = "raised"
    /\ exit_status' = 1
    /\ pc' = "exited"
    /\ UNCHANGED <<params, fs, videos, proxy, error, batch_vars, form_vars, stale_workers>>

\* main: "if result: sys.exit(1)", else the process ends with status 0
CliResult ==
    /\ caller = "cli"
    /\ pc = "returned"
    /\ exit_status' = IF failed # <<>> THEN 1 ELSE 0
    /\ pc' = "exited"
    /\ UNCHANGED <<params, fs, videos, proxy, error, batch_vars, form_vars, stale_workers>>

\* -------------------------------------------------------- upload_videos
\* videos = _convert_videos_dict(videos)
ConvertVideos ==
    /\ pc = "convert"
    /\ IF convert_videos_dict(videos) = "ok"
         THEN pc' = "get_browser" /\ UNCHANGED error
         ELSE pc' = "raised" /\ error' = convert_videos_dict(videos)
    /\ UNCHANGED <<params, fs, videos, proxy, batch_vars, form_vars, stale_workers, exit_status>>

\* mutant of GetBrowser: a browser is created even when the caller supplied one
GetBrowser_IgnoreAgent ==
    /\ pc = "get_browser"
    /\ get_browser_calls' = get_browser_calls + 1
    /\ driver' = "open"
    /\ pc' = "proxy_check"
    /\ UNCHANGED <<params, fs, videos, proxy, error, idx, failed, auth_calls, proxy_result,
                   processed, delegated, raised_tasks, form_vars, stale_workers, exit_status>>

\* "if not browser_agent: driver = get_browser(...) else: driver = browser_agent";
\* get_browser raises when the browser cannot be started
GetBrowser ==
    /\ pc = "get_browser"
    /\ IF browser_agent
         THEN /\ driver' = "open"
              /\ pc' = "proxy_check"
              /\ UNCHANGED <<get_browser_calls, error>>
         ELSE /\ get_browser_calls' = get_browser_calls + 1
              /\ \E started \in BOOLEAN :
                   IF started
                   THEN driver' = "open" /\ pc' = "proxy_check" /\ UNCHANGED error
                   ELSE pc' = "raised" /\ error' = "BrowserError" /\ UNCHANGED driver
    /\ UNCHANGED <<params, fs, videos, proxy, idx, failed, auth_calls, proxy_result,
                   processed, delegated, raised_tasks, form_vars, stale_workers, exit_status>>

\* mutant of ProxyCheck: a proxy that does not work is logged and the run goes on
ProxyCheck_IgnoreBroken ==
    /\ pc = "proxy_check"
    /\ IF proxy = "set"
         THEN \E working \in BOOLEAN :
                proxy_result' = IF working THEN "working" ELSE "broken"
         ELSE UNCHANGED proxy_result
    /\ pc' = "authenticate"
    /\ UNCHANGED <<params, fs, videos, proxy, error, driver, idx, failed, get_browser_calls,
                   auth_calls, processed, delegated, raised_tasks, form_vars, stale_workers,
                   exit_status>>

\* "if proxy: if proxy_is_working(...) ... else: driver.quit(); raise Exception(...)"
ProxyCheck ==
    /\ pc = "proxy_check"
    /\ IF proxy = "set"
         THEN \E working \in BOOLEAN :
                IF working
                THEN /\ proxy_result' = "working"
                     /\ pc' = "authenticate"
                     /\ UNCHANGED <<driver, error>>
                ELSE /\ proxy_result' = "broken"
                     /\ driver' = "quit"
                     /\ error' = "ProxyError"
                     /\ pc' = "raised"
         ELSE /\ pc' = "authenticate"
              /\ UNCHANGED <<proxy_result, driver, error>>
    /\ UNCHANGED <<params, fs, videos, proxy, idx, failed, get_browser_calls, auth_calls,
                   processed, delegated, raised_tasks, form_vars, stale_workers, exit_status>>

\* driver = auth.authenticate_agent(driver): raises when the login or the wait for
\* the page title fails
AuthenticateAgent ==
    /\ pc = "authenticate"
    /\ auth_calls' = auth_calls + 1
    /\ \E resolved \in BOOLEAN :
         IF resolved
         THEN pc' = "loop" /\ UNCHANGED error
         ELSE pc' = "raised" /\ error' = "AuthError"
    /\ UNCHANGED <<params, fs, videos, proxy, driver, idx, failed, get_browser_calls,
                   proxy_result, processed, delegated, raised_tasks, form_vars,
                   stale_workers, exit_status>>

\* loop body, "if not _check_valid_path(path): failed.append(video); continue"
SkipInvalidPath ==
    /\ pc = "loop"
    /\ idx < Len(videos)
    /\ ~check_valid_path(videos[idx + 1])
    /\ idx' = idx + 1
    /\ processed' = Append(processed, idx + 1)
    /\ failed' = Append(failed, idx + 1)
    /\ pc' = "loop"
    /\ UNCHANGED <<params, fs, videos, proxy, error, driver, get_browser_calls, auth_calls,
                   proxy_result, delegated, raised_tasks, form_vars, stale_workers,
                   exit_status>>

\* loop body, the call complete_upload_form(driver, path, description, ..., num_retries)
CallCompleteUploadForm ==
    /\ pc = "loop"
    /\ idx < Len(videos)
    /\ check_valid_path(videos[idx + 1])
    /\ idx' = idx + 1
    /\ processed' = Append(processed, idx + 1)
    /\ delegated' = delegated \cup {idx + 1}
    /\ retries_left' = num_retries
    /\ last_error' = "none"
    /\ upload_thread' = "none"
    /\ upload_complete_event' = FALSE
    /\ upload_success' = FALSE
    /\ upload_error' = "none"
    /\ post_outcome' = "none"
    /\ executions' = 0
    /\ raised_executions' = 0
    /\ carried' = "none"
    /\ form_result' = "running"
    /\ steps' = <<>>
    /\ step_outcome' = "none"
    /\ post_clicks' = 0
    /\ complete_found' = FALSE
    /\ pc' = "go_to_upload"
    /\ UNCHANGED <<params, fs, videos, proxy, error, driver, failed, get_browser_calls,
                   auth_calls, proxy_result, raised_tasks, stale_workers, exit_status>>

\* mutant of CatchTaskException: the handler logs and raises again
CatchTaskException_Reraise ==
    /\ pc = "task_except"
    /\ error' = "FailedToUpload"
    /\ pc' = "raised"
    /\ UNCHANGED <<params, fs, videos, proxy, batch_vars, form_vars, stale_workers,
                   exit_status>>

\* "except Exception as exception": the error is logged, nothing else
CatchTaskException ==
    /\ pc = "task_except"
    /\ pc' = "on_complete"
    /\ UNCHANGED <<params, fs, videos, proxy, error, batch_vars, form_vars, stale_workers,
                   exit_status>>

\* the on_complete argument of upload_videos, a function of the caller's, and the
\* builtin the code compares it with
on_complete == "callback"
callable == "builtins.callable"

\* "if on_complete is callable: on_complete(video)": the test compares the argument
\* with the builtin, so the call is never made
OnComplete ==
    /\ pc = "on_complete"
    /\ on_complete_calls' = IF on_complete = callable THEN Append(on_complete_calls, idx)
                            ELSE on_complete_calls
    /\ pc' = "loop"
    /\ UNCHANGED <<inputs, fs, videos, proxy, error, batch_vars, form_vars, stale_workers,
                   exit_status>>

\* after the loop: "if config['quit_on_end']: driver.quit()"; "return failed"
FinishBatch ==
    /\ pc = "loop"
    /\ idx = Len(videos)
    /\ driver' = IF quit_on_end THEN "quit" ELSE driver
    /\ pc' = "returned"
    /\ UNCHANGED <<params, fs, videos, proxy, error, idx, failed, get_browser_calls,
                   auth_calls, proxy_result, processed, delegated, raised_tasks, form_vars,
                   stale_workers, exit_status>>

\* -------------------------------------------------- complete_upload_form
\* the part of the state a step of the controller leaves alone
form_frame == <<params, fs, videos, proxy, error, batch_vars, exit_status>>

\* a step raised e inside the try block: control goes to "except Exception as e"
StepRaises(e) ==
    /\ last_error' = e
    /\ raised_executions' = raised_executions + 1
    /\ pc' = "form_except"

\* a step returned: control goes on to the next statement of the try block
StepReturns(next_pc) ==
    /\ pc' = next_pc
    /\ UNCHANGED <<last_error, raised_executions>>

\* _go_to_upload: up to max_retries tries to load the page and see the file input;
\* raises after the last try failed.  It opens one execution of the step sequence.
GoToUpload ==
    /\ pc = "go_to_upload"
    /\ executions' = executions + 1
    /\ steps' = Append(steps, "_go_to_upload")
    /\ \E loaded \in [1..go_to_upload_max_retries -> BOOLEAN] :
         IF \E attempt \in 1..go_to_upload_max_retries : loaded[attempt]
         THEN StepReturns("remove_cookies_window")
         ELSE StepRaises("NavigationFailed")
    /\ UNCHANGED <<form_frame, retries_left, upload_thread, upload_complete_event,
                   upload_success, upload_error, stale_workers, post_outcome, carried,
                   form_result, step_outcome, post_clicks, complete_found>>

\* _remove_cookies_window: the banner is accepted through its shadow root, through one
\* of the button selectors, through the script, or a modal is closed; or nothing is
\* found ("No cookie banner found or already handled"); or an exception reaches the
\* outer "except Exception", which logs it.  The function returns in every case.
BannerOutcomes == {"shadow_root", "selector", "javascript", "close_button", "no_banner",
                   "driver_error"}

\* mutant of RemoveCookiesWindow: the outer handler lets a driver error through
RemoveCookiesWindow_Propagates ==
    /\ pc = "remove_cookies_window"
    /\ steps' = Append(steps, "_remove_cookies_window")
    /\ \E outcome \in BannerOutcomes :
         /\ step_outcome' = outcome
         /\ IF outcome = "driver_error" THEN StepRaises("WebDriverException")
            ELSE StepReturns("start_upload")
    /\ UNCHANGED <<form_frame, retries_left, upload_thread, upload_complete_event,
                   upload_success, upload_error, stale_workers, post_outcome, executions,
                   carried, form_result, post_clicks, complete_found>>

RemoveCookiesWindow ==
    /\ pc = "remove_cookies_window"
    /\ steps' = Append(steps, "_remove_cookies_window")
    /\ \E outcome \in BannerOutcomes :
         /\ step_outcome' = outcome
         /\ StepReturns("start_upload")
    /\ UNCHANGED <<form_frame, retries_left, upload_thread, upload_complete_event,
                   upload_success, upload_error, stale_workers, post_outcome, executions,
                   carried, form_result, post_clicks, complete_found>>

\* upload_complete_event = Event(); upload_success = [False]; upload_error = [None];
\* upload_thread.start()
StartUploadThread ==
    /\ pc = "start_upload"
    /\ upload_complete_event' = FALSE
    /\ upload_success' = FALSE
    /\ upload_error' = "none"
    /\ upload_thread' = "running"
    /\ complete_found' = FALSE
    /\ steps' = Append(steps, "_set_video")
    /\ step_outcome' = "none"
    /\ pc' = "wait_upload"
    /\ UNCHANGED <<form_frame, retries_left, last_error, stale_workers, post_outcome,
                   executions, raised_executions, carried, form_result, post_clicks>>

\* _set_video, as the worker sees it end: it raised FailedToUpload (no upload input,
\* send_keys failed); or it sent the path and one of the completion selectors resolved;
\* or it sent the path and none resolved in its wait ("if not complete_found:
\* logger.warning(...)"), after which it returns as well.  The waits of _set_video are
\* its own (5 s and 30 s a selector, cut short when a lookup raises); whether they end
\* before the event wait of config["uploading_wait"] is left open.
SetVideoOutcomes == {"raised", "complete", "no_indicator"}

\* the worker, upload_video(), up to the end of its try statement: _set_video returns
\* and upload_success[0] is written, or it raises and "except Exception as e" writes
\* upload_error[0] (error_stored: the handler stores what it caught)
WorkerBody(error_stored) ==
    /\ upload_thread = "running"
    /\ \E outcome \in SetVideoOutcomes :
         /\ complete_found' = (outcome = "complete")
         /\ IF outcome = "raised"
            THEN /\ upload_error' = IF error_stored THEN "SetVideoFailed" ELSE upload_error
                 /\ UNCHANGED upload_success
            ELSE /\ upload_success' = TRUE
                 /\ UNCHANGED upload_error
    /\ upload_thread' = "stored"
    /\ UNCHANGED <<form_frame, pc, retries_left, last_error, upload_complete_event,
                   stale_workers, post_outcome, executions, raised_executions, carried,
                   form_result, steps, step_outcome, post_clicks>>

\* mutant of WorkerSetVideo: the handler drops the exception instead of storing it
WorkerSetVideo_ErrorDropped == WorkerBody(FALSE)

WorkerSetVideo == WorkerBody(TRUE)

\* the worker's "finally: upload_complete_event.set()", after which the thread ends
WorkerFinally ==
    /\ upload_thread = "stored"
    /\ upload_complete_event' = TRUE
    /\ upload_thread' = "finished"
    /\ UNCHANGED <<form_frame, pc, retries_left, last_error, upload_success, upload_error,
                   stale_workers, post_outcome, executions, raised_executions, carried,
                   form_result, steps, step_outcome, post_clicks, complete_found>>

\* mutant of WaitUploadDone: the result cells are not read
WaitUploadDone_CellsIgnored ==
    /\ pc = "wait_upload"
    /\ upload_complete_event
    /\ StepReturns("set_description")
    /\ UNCHANGED <<form_frame, retries_left, upload_thread, upload_complete_event,
                   upload_success, upload_error, stale_workers, post_outcome, executions,
                   carried, form_result, steps, step_outcome, post_clicks, complete_found>>

\* upload_complete_event.wait(timeout) returned True: the result cells are read
WaitUploadDone ==
    /\ pc = "wait_upload"
    /\ upload_complete_event
    /\ IF upload_error # "none" THEN StepRaises(upload_error)
       ELSE IF ~upload_success THEN StepRaises("UploadFailedUnknown")
       ELSE StepReturns("set_description")
    /\ UNCHANGED <<form_frame, retries_left, upload_thread, upload_complete_event,
                   upload_success, upload_error, stale_workers, post_outcome, executions,
                   carried, form_result, steps, step_outcome, post_clicks, complete_found>>

\* mutant of WaitUploadTimeout: the False that wait() returns is not tested
WaitUploadTimeout_GoesOn ==
    /\ pc = "wait_upload"
    /\ ~upload_complete_event
    /\ upload_thread \in {"running", "stored"}
    /\ StepReturns("set_description")
    /\ upload_thread' = "none"
    /\ stale_workers' = IF upload_thread = "running" THEN stale_workers + 1
                        ELSE stale_workers
    /\ UNCHANGED <<form_frame, retries_left, upload_complete_event, upload_success,
                   upload_error, post_outcome, executions, carried, form_result, steps,
                   step_outcome, post_clicks, complete_found>>

\* upload_complete_event.wait(timeout) returned False: the orchestrating thread raises
\* and gives up the frame; the worker is neither joined nor stopped: one that is still
\* inside _set_video goes on running it against the driver, one that is past it has
\* only the event of the abandoned frame to set
WaitUploadTimeout ==
    /\ pc = "wait_upload"
    /\ ~upload_complete_event
    /\ upload_thread \in {"running", "stored"}
    /\ StepRaises("UploadTimeout")
    /\ upload_thread' = "none"
    /\ stale_workers' = IF upload_thread = "running" THEN stale_workers + 1
                        ELSE stale_workers
    /\ UNCHANGED <<form_frame, retries_left, upload_complete_event, upload_success,
                   upload_error, post_outcome, executions, carried, form_result, steps,
                   step_outcome, post_clicks, complete_found>>

\* a worker of an abandoned frame comes to the end of _set_video
StaleWorkerEnds ==
    /\ stale_workers > 0
    /\ stale_workers' = stale_workers - 1
    /\ UNCHANGED <<form_frame, pc, form_vars>>

\* _set_description: every failure is caught inside it
SetDescription ==
    /\ pc = "set_description"
    /\ steps' = Append(steps, "_set_description")
    /\ pc' = "set_interactivity"
    /\ UNCHANGED <<form_frame, form_cells, step_outcome, stale_workers>>

\* _set_interactivity: a toggle was set; or none was found ("Could not find any
\* interactivity settings to modify"); or an exception reaches "except Exception",
\* which logs it.  The function returns in every case.
InteractivityOutcomes == {"set", "no_toggle", "driver_error"}

\* mutant of SetInteractivity: a missing toggle or a driver error leaves the function
SetInteractivity_Propagates ==
    /\ pc = "set_interactivity"
    /\ steps' = Append(steps, "_set_interactivity")
    /\ \E outcome \in InteractivityOutcomes :
         /\ step_outcome' = outcome
         /\ IF outcome = "set"
            THEN StepReturns(IF skip_split_window THEN "post_video"
                             ELSE "remove_split_window")
            ELSE StepRaises("InteractivityFailed")
    /\ UNCHANGED <<form_frame, retries_left, upload_thread, upload_complete_event,
                   upload_success, upload_error, stale_workers, post_outcome, executions,
                   carried, form_result, post_clicks, complete_found>>

SetInteractivity ==
    /\ pc = "set_interactivity"
    /\ steps' = Append(steps, "_set_interactivity")
    /\ \E outcome \in InteractivityOutcomes :
         /\ step_outcome' = outcome
         /\ StepReturns(IF skip_split_window THEN "post_video" ELSE "remove_split_window")
    /\ UNCHANGED <<form_frame, retries_left, upload_thread, upload_complete_event,
                   upload_success, upload_error, stale_workers, post_outcome, executions,
                   carried, form_result, post_clicks, complete_found>>

\* "if not skip_split_window: _remove_split_window(driver)": failures caught inside it
RemoveSplitWindow ==
    /\ pc = "remove_split_window"
    /\ steps' = Append(steps, "_remove_split_window")
    /\ step_outcome' = "none"
    /\ pc' = "post_video"
    /\ UNCHANGED <<form_frame, form_cells, stale_workers>>

PostOutcomes == {"no_button", "click_failed", "unconfirmed", "confirmed", "url_confirmed"}
\* the outcomes in which one of the click methods returned ("click_success = True")
Clicked == {"unconfirmed", "confirmed", "url_confirmed"}

\* _post_video: resolve the post button, click it, look for a confirmation selector,
\* then for the URL change; "if not confirmation_found: raise"; every exception leaves
\* as FailedToUpload.  When it returns, the try block is over and the call returns.
PostVideo ==
    /\ pc = "post_video"
    /\ steps' = Append(steps, "_post_video")
    /\ step_outcome' = "none"
    /\ \E outcome \in PostOutcomes :
         /\ post_outcome' = outcome
         /\ post_clicks' = IF outcome \in Clicked THEN post_clicks + 1 ELSE post_clicks
         /\ IF outcome \in {"confirmed", "url_confirmed"}
            THEN /\ StepReturns("on_complete")
                 /\ form_result' = "returned"
            ELSE /\ StepRaises("PostFailed")
                 /\ UNCHANGED form_result
    /\ UNCHANGED <<form_frame, retries_left, upload_thread, upload_complete_event,
                   upload_success, upload_error, stale_workers, executions, carried,
                   complete_found>>

\* "except Exception as e: if num_retries > 0: complete_upload_form(..., num_retries - 1)
\* else: raise FailedToUpload(e)".  The recursive call is made from the handler, so what
\* it raises passes through every outer frame to upload_videos.  entry is the position
\* at which the called frame starts.
FormExceptBody(retry, entry) ==
    /\ pc = "form_except"
    /\ IF retry
         THEN /\ retries_left' = retries_left - 1
              /\ last_error' = "none"
              /\ upload_thread' = "none"
              /\ upload_complete_event' = FALSE
              /\ upload_success' = FALSE
              /\ upload_error' = "none"
              /\ complete_found' = FALSE
              /\ steps' = <<>>
              /\ step_outcome' = "none"
              /\ pc' = entry
              /\ UNCHANGED <<carried, form_result, raised_tasks>>
         ELSE /\ carried' = last_error
              /\ form_result' = "raised"
              /\ raised_tasks' = raised_tasks \cup {idx}
              /\ pc' = "task_except"
              /\ UNCHANGED <<retries_left, last_error, upload_thread,
                             upload_complete_event, upload_success, upload_error,
                             complete_found, steps, step_outcome>>
    /\ UNCHANGED <<params, fs, videos, proxy, error, driver, idx, failed, get_browser_calls,
                   auth_calls, proxy_result, processed, delegated, exit_status,
                   stale_workers, post_outcome, executions, raised_executions,
                   post_clicks>>

\* mutant of FormExcept: the test reads "num_retries > 1"
FormExcept_OffByOne == FormExceptBody(retries_left > 1, "go_to_upload")

\* mutant of FormExcept: the handler goes on from the injection step
FormExcept_ResumesAtInjection == FormExceptBody(retries_left > 0, "start_upload")

FormExcept == FormExceptBody(retries_left > 0, "go_to_upload")

\* ------------------------------------------------------------ environment
\* a video file of a task that is still to be checked is deleted
RemoveFile ==
    /\ pc \notin {"returned", "raised", "main_except", "exited"}
    /\ \E p \in fs :
         /\ \/ \E i \in (idx + 1)..Len(videos) : videos[i] = p
            \/ caller = "cli" /\ videos = <<>> /\ args.video = p
         /\ fs' = fs \ {p}
    /\ UNCHANGED <<params, videos, proxy, pc, error, batch_vars, form_vars, stale_workers,
                   exit_status>>

Next ==
    \/ CliValidate
    \/ UploadVideo
    \/ CliFatal
    \/ CliResult
    \/ ConvertVideos
    \/ GetBrowser
    \/ ProxyCheck
    \/ AuthenticateAgent
    \/ SkipInvalidPath
    \/ CallCompleteUploadForm
    \/ CatchTaskException
    \/ OnComplete
    \/ FinishBatch
    \/ GoToUpload
    \/ RemoveCookiesWindow
    \/ StartUploadThread
    \/ WorkerSetVideo
    \/ WorkerFinally
    \/ WaitUploadDone
    \/ WaitUploadTimeout
    \/ StaleWorkerEnds
    \/ SetDescription
    \/ SetInteractivity
    \/ RemoveSplitWindow
    \/ PostVideo
    \/ FormExcept
    \/ RemoveFile

Spec == Init /\ [][Next]_vars

\* ============================================== cookie sources: get_cookies
\* A cookie source is text: a sequence of lines, a line being the sequence of
\* its tab-separated fields (line.split("\t")).  A blank line is <<"">>.
MaxLines == 2

RowSecure    == <<".tiktok.com", "TRUE", "/", "TRUE", "1700000000", "sessionid", "abc">>
RowPlain     == <<".tiktok.com", "TRUE", "/", "FALSE", "0", "tt_csrf", "xyz">>
RowLowerTrue == <<"www.tiktok.com", "FALSE", "/upload", "true", "session", "sid", "v1">>
ShortLine    == <<".tiktok.com", "TRUE", "/">>
BlankLine    == <<"">>
CommentLine  == <<"# Netscape HTTP Cookie File">>
JsonLine     == <<"[{\"name\": \"sessionid\", \"value\": \"abc\"}]">>

CookieLines == {RowSecure, RowPlain, RowLowerTrue, ShortLine, BlankLine,
                CommentLine, JsonLine}

CookieInputs == UNION {[1..n -> CookieLines] : n \in 0..MaxLines}

\* str.startswith("#") on the first field of a line
StartsWithHash(line) == line[1] = CommentLine[1]

\* "not line": the line is the empty string
IsEmptyLine(line) == line = <<>> \/ line = BlankLine

\* str.strip() on a line: leading and trailing whitespace goes, so a line of
\* whitespace only becomes the empty string
RECURSIVE strip(_)
strip(line) ==
    IF line = <<>> THEN <<>>
    ELSE IF Head(line) = "" THEN strip(Tail(line))
    ELSE IF line[Len(line)] = "" THEN strip(SubSeq(line, 1, Len(line) - 1))
    ELSE line

\* int(s): the strings it accepts and their values; ValueError otherwise
IntLiterals == {"0", "1700000000"}
int(s) == IF s = "0" THEN 0 ELSE 1700000000

\* json.load / json.loads on the text: the documents it accepts and their
\* values; an exception otherwise.  Blank lines around a document are
\* whitespace to the JSON decoder.
IsJson(lines) == SelectSeq(lines, LAMBDA l : ~IsEmptyLine(l)) = <<JsonLine>>
json_loads(lines) == <<[name |-> "sessionid", value |-> "abc"]>>

\* what get_cookies returns; raised: an exception was caught and logged on the way
Parsed(cookies) == [raised |-> FALSE, cookies |-> cookies]
ParseFailed == [raised |-> TRUE, cookies |-> <<>>]

\* auth.AuthBackend.get_cookies (package revision), loop body for one line:
\* the records the line contributes
package_row(line) ==
    IF IsEmptyLine(line) \/ StartsWithHash(line) THEN <<>>
    ELSE IF Len(line) < 7 THEN <<>>
    ELSE LET base == [name |-> line[6], value |-> line[7],
                      domain |-> line[1], path |-> line[3]]
             expiry == IF line[5] \in IntLiterals THEN int(line[5]) ELSE 0
         IN  IF expiry # 0
               THEN <<[name |-> base.name, value |-> base.value, domain |-> base.domain,
                       path |-> base.path, expiry |-> expiry]>>
               ELSE <<base>>

RECURSIVE package_rows(_)
\* the loop leaving at the first line that contributes nothing
package_rows_BreakAtSkipped(lines) ==
    IF lines = <<>> THEN <<>>
    ELSE IF package_row(Head(lines)) = <<>> THEN <<>>
    ELSE package_row(Head(lines)) \o package_rows(Tail(lines))

package_rows(lines) ==
    IF lines = <<>> THEN <<>>
    ELSE package_row(Head(lines)) \o package_rows(Tail(lines))

\* auth.AuthBackend.get_cookies(path=...) and (cookies_str=...), package revision
package_get_cookies(lines) == Parsed(package_rows(lines))

\* utils.get_cookies, loop body for one line
utils_row(line) ==
    LET l == strip(line)
    IN  IF IsEmptyLine(l) \/ StartsWithHash(l) THEN <<>>
        ELSE IF Len(l) >= 7
          THEN <<[name |-> l[6], value |-> l[7], domain |-> l[1], path |-> l[3],
                  secure |-> (l[4] = "TRUE"), httpOnly |-> (l[5] = "TRUE")]>>
          ELSE <<>>

RECURSIVE utils_rows(_)
utils_rows(lines) ==
    IF lines = <<>> THEN <<>>
    ELSE utils_row(Head(lines)) \o utils_rows(Tail(lines))

utils_get_cookies(lines) == Parsed(utils_rows(lines))

\* auth.AuthBackend.get_cookies(path=...) of the revision in src/auth.py:
\* the rows of the loop, and whether int(fields[4]) raises in it
root_valid(line) ==
    LET l == strip(line)
    IN  ~IsEmptyLine(l) /\ ~StartsWithHash(l) /\ Len(l) >= 7

root_row(line) ==
    LET l == strip(line)
    IN  IF root_valid(line)
          THEN <<[domain |-> l[1], flag |-> (l[2] = "TRUE"), path |-> l[3],
                  secure |-> (l[4] = "TRUE"),
                  expiration |-> IF l[5] \in IntLiterals THEN int(l[5]) ELSE 0,
                  name |-> l[6], value |-> l[7]]>>
          ELSE <<>>

root_row_raises(line) == root_valid(line) /\ strip(line)[5] \notin IntLiterals

RECURSIVE root_rows(_)
root_rows(lines) ==
    IF lines = <<>> THEN <<>>
    ELSE root_row(Head(lines)) \o root_rows(Tail(lines))

root_get_cookies_path(lines) ==
    IF \E i \in 1..Len(lines) : root_row_raises(lines[i]) THEN ParseFailed
    ELSE IF root_rows(lines) # <<>> THEN Parsed(root_rows(lines))
    ELSE IF IsJson(lines) THEN Parsed(json_loads(lines))
    ELSE ParseFailed

\* auth.AuthBackend.get_cookies(cookies_str=...) of the revision in src/auth.py
root_get_cookies_str(lines) ==
    IF lines = <<>> THEN Parsed(<<>>)
    ELSE IF IsJson(lines) THEN Parsed(json_loads(lines))
    ELSE ParseFailed

CookieParsers == {"package", "root_path", "root_str", "utils"}

get_cookies(parser, lines) ==
    CASE parser = "package"   -> package_get_cookies(lines)
      [] parser = "root_path" -> root_get_cookies_path(lines)
      [] parser = "root_str"  -> root_get_cookies_str(lines)
      [] parser = "utils"     -> utils_get_cookies(lines)

InitCookies ==
    /\ UploadIdle
    /\ ComponentsIdle("get_cookies")
    /\ cookie_parser \in CookieParsers
    /\ cookie_input \in CookieInputs
    /\ cookie_pc = "call"
    /\ cookie_result = Parsed(<<>>)

\* one call of get_cookies on the source
GetCookies ==
    /\ cookie_pc = "call"
    /\ cookie_result' = get_cookies(cookie_parser, cookie_input)
    /\ cookie_pc' = "returned"
    /\ UNCHANGED <<cookie_parser, cookie_input>>

NextCookies == GetCookies /\ UNCHANGED <<upload_vars, auth_vars, inter_vars, caption_vars, convert_vars, lookup_vars>>

SpecCookies == InitCookies /\ [][NextCookies]_vars

\* ======================================== credentials: AuthBackend.__init__
\* The texts a cookie file or a cookie string holds in a construction
AuthTexts == {<<>>, <<CommentLine, ShortLine>>, <<RowSecure>>, <<RowLowerTrue>>,
              <<JsonLine>>}

CookieFiles == {NoSource} \cup {[given |-> TRUE, lines |-> t] : t \in AuthTexts}

\* username, password, sessionid: TRUE for a non-empty string.  cookies_list:
\* <<>> for None or an empty list.  cookies_str: <<>> for None or "".
AuthArgs == [username : BOOLEAN, password : BOOLEAN,
             cookies_list : {<<>>, <<[name |-> "sid_guard", value |-> "g1"]>>},
             cookies : CookieFiles, cookies_str : AuthTexts, sessionid : BOOLEAN]

SessionCookie == <<[name |-> "sessionid", value |-> "abc"]>>

Constructed(cookies) == [raised |-> FALSE, cookies |-> cookies]
InsufficientAuth == [raised |-> TRUE, cookies |-> <<>>]

\* tiktok_uploader/auth.py, AuthBackend.__init__
package_init(a) ==
    LET cookies ==
            (IF a.cookies.given THEN package_get_cookies(a.cookies.lines).cookies
                                ELSE <<>>)
            \o (IF a.cookies_str # <<>> THEN package_get_cookies(a.cookies_str).cookies
                                        ELSE <<>>)
            \o a.cookies_list
            \o (IF a.sessionid THEN SessionCookie ELSE <<>>)
    IN  IF (a.username /\ ~a.password) \/ (a.password /\ ~a.username)
          THEN InsufficientAuth
        ELSE IF ~(cookies # <<>> \/ (a.username /\ a.password))
          THEN InsufficientAuth
        ELSE Constructed(cookies)

\* auth.py, AuthBackend.__init__
root_init(a) ==
    LET cookies ==
            IF a.cookies_list # <<>> THEN a.cookies_list
            ELSE IF a.cookies.given THEN root_get_cookies_path(a.cookies.lines).cookies
            ELSE IF a.cookies_str # <<>> THEN root_get_cookies_str(a.cookies_str).cookies
            ELSE IF a.sessionid THEN SessionCookie
            ELSE <<>>
    IN  IF cookies = <<>> /\ ~(a.username /\ a.password)
          THEN InsufficientAuth
          ELSE Constructed(cookies)

InitAuth ==
    /\ UploadIdle
    /\ ComponentsIdle("AuthBackend")
    /\ auth_revision \in {"package", "root"}
    /\ auth_args \in AuthArgs
    /\ auth_pc = "call"
    /\ auth_cookies = <<>>
    /\ agent_pc = "idle"
    /\ agent_result = "none"
    /\ login_result = "none"
    /\ login_calls = 0
    /\ login_polls = 0
    /\ logged_in \in BOOLEAN
    /\ cookies_offered = <<>>

Construct(result) ==
    /\ auth_pc = "call"
    /\ auth_pc' = IF result.raised THEN "raised" ELSE "constructed"
    /\ auth_cookies' = result.cookies
    /\ UNCHANGED <<auth_revision, auth_args, agent_pc, agent_result, login_result,
                   login_calls, login_polls, logged_in, cookies_offered, upload_vars,
                   cookie_vars, inter_vars, caption_vars, convert_vars, lookup_vars>>

ConstructPackage == auth_revision = "package" /\ Construct(package_init(auth_args))

ConstructRoot == auth_revision = "root" /\ Construct(root_init(auth_args))

\* ---- authenticate_agent and login, on the constructed object
\* the passes through the polling loop that fit into config["explicit_wait"]
MaxPolls == 2

\* what the steps of authenticate_agent leave alone
agent_rest == <<agent_frame, upload_vars, cookie_vars, inter_vars, caption_vars,
                convert_vars, lookup_vars>>

\* an exception leaves login and, through it, authenticate_agent
LoginRaises(e) ==
    /\ login_result' = e
    /\ agent_result' = e
    /\ agent_pc' = "raised"

\* tiktok_uploader/auth.py, authenticate_agent, the first statement: "if not
\* self.cookies and self.username and self.password: self.cookies = login(...)".
\* run_login is the test.
AgentPackageBody(run_login) ==
    /\ auth_revision = "package"
    /\ auth_pc = "constructed"
    /\ agent_pc = "idle"
    /\ IF run_login
         THEN /\ login_calls' = login_calls + 1
              /\ agent_pc' = "login"
         ELSE /\ agent_pc' = "add_cookies"
              /\ UNCHANGED login_calls
    /\ UNCHANGED <<agent_rest, auth_cookies, agent_result, login_result, login_polls,
                   logged_in, cookies_offered>>

\* mutant of AgentPackage: the credentials are used whenever they are there
AgentPackage_LoginFirst == AgentPackageBody(auth_args.username /\ auth_args.password)

AgentPackage ==
    AgentPackageBody(auth_cookies = <<>> /\ auth_args.username /\ auth_args.password)

\* tiktok_uploader/auth.py, login up to submit.click(): a session the browser holds
\* is dropped ("if driver.get_cookie(...): driver.delete_all_cookies()"), the form is
\* filled and submitted; the wait for the username field or a find_element may raise
LoginSubmit ==
    /\ auth_revision = "package"
    /\ agent_pc = "login"
    /\ logged_in' = FALSE
    /\ \E form_found \in BOOLEAN :
         IF form_found
         THEN agent_pc' = "login_poll" /\ UNCHANGED <<agent_result, login_result>>
         ELSE LoginRaises("TimeoutException")
    /\ UNCHANGED <<agent_rest, auth_cookies, login_calls, login_polls, cookies_offered>>

\* the user completes the captcha: the cookie_of_interest appears
SessionAppears ==
    /\ agent_pc = "login_poll"
    /\ ~logged_in
    /\ logged_in' = TRUE
    /\ UNCHANGED <<agent_rest, auth_cookies, agent_pc, agent_result, login_result,
                   login_calls, login_polls, cookies_offered>>

\* "while not driver.get_cookie(cookie_of_interest): sleep(0.5); if time() -
\* start_time > config["explicit_wait"]: raise InsufficientAuth()"
LoginPoll ==
    /\ agent_pc = "login_poll"
    /\ IF logged_in
         THEN /\ agent_pc' = "login_url_wait"
              /\ UNCHANGED <<agent_result, login_result, login_polls>>
         ELSE /\ login_polls' = login_polls + 1
              /\ IF login_polls' > MaxPolls
                   THEN LoginRaises("InsufficientAuth")
                   ELSE UNCHANGED <<agent_pc, agent_result, login_result>>
    /\ UNCHANGED <<agent_rest, auth_cookies, login_calls, logged_in, cookies_offered>>

\* "WebDriverWait(driver, explicit_wait).until(EC.url_changes(login))"; "return
\* driver.get_cookies()", which authenticate_agent stores in self.cookies
LoginUrlWait ==
    /\ agent_pc = "login_url_wait"
    /\ \E url_changed \in BOOLEAN :
         IF url_changed
         THEN /\ login_result' = "cookies"
              /\ auth_cookies' = SessionCookie
              /\ agent_pc' = "add_cookies"
              /\ UNCHANGED agent_result
         ELSE /\ LoginRaises("TimeoutException")
              /\ UNCHANGED auth_cookies
    /\ UNCHANGED <<agent_rest, login_calls, login_polls, logged_in, cookies_offered>>

\* tiktok_uploader/auth.py, authenticate_agent after the login: the main page is
\* loaded and its title waited for, which may raise; "for cookie in self.cookies:
\* driver.add_cookie(cookie)", a failure of which is logged; "return driver"
AddCookies ==
    /\ agent_pc = "add_cookies"
    /\ \E title_seen \in BOOLEAN :
         IF title_seen
         THEN /\ cookies_offered' = auth_cookies
              /\ agent_result' = "driver"
              /\ agent_pc' = "returned"
         ELSE /\ agent_result' = "TimeoutException"
              /\ agent_pc' = "raised"
              /\ UNCHANGED cookies_offered
    /\ UNCHANGED <<agent_rest, auth_cookies, login_result, login_calls, login_polls,
                   logged_in>>

\* auth.py, authenticate_agent: "if self.cookies: ... add_cookie ... return driver";
\* "if self.username and self.password: return login(...)"; "raise InsufficientAuth"
AgentRoot ==
    /\ auth_revision = "root"
    /\ auth_pc = "constructed"
    /\ agent_pc = "idle"
    /\ IF auth_cookies # <<>>
         THEN /\ cookies_offered' = auth_cookies
              /\ agent_result' = "driver"
              /\ agent_pc' = "returned"
              /\ UNCHANGED login_calls
         ELSE IF auth_args.username /\ auth_args.password
         THEN /\ login_calls' = login_calls + 1
              /\ agent_pc' = "login"
              /\ UNCHANGED <<cookies_offered, agent_result>>
         ELSE /\ agent_result' = "InsufficientAuth"
              /\ agent_pc' = "raised"
              /\ UNCHANGED <<cookies_offered, login_calls>>
    /\ UNCHANGED <<agent_rest, auth_cookies, login_result, login_polls, logged_in>>

\* auth.py, login: the form is filled and submitted and the URL waited for, ten
\* seconds each; an exception is logged and raised again; otherwise the function
\* ends without a return statement, and authenticate_agent returns its None
RootLogin ==
    /\ auth_revision = "root"
    /\ agent_pc = "login"
    /\ \E url_changed \in BOOLEAN :
         IF url_changed
         THEN /\ login_result' = "None"
              /\ agent_result' = "None"
              /\ agent_pc' = "returned"
         ELSE LoginRaises("TimeoutException")
    /\ \E captcha_done \in BOOLEAN : logged_in' = (logged_in \/ captcha_done)
    /\ UNCHANGED <<agent_rest, auth_cookies, login_calls, login_polls, cookies_offered>>

NextAuth ==
    \/ ConstructPackage
    \/ ConstructRoot
    \/ AgentPackage
    \/ LoginSubmit
    \/ SessionAppears
    \/ LoginPoll
    \/ LoginUrlWait
    \/ AddCookies
    \/ AgentRoot
    \/ RootLogin

SpecAuth == InitAuth /\ [][NextAuth]_vars

\* ================================= interactivity: upload._set_interactivity
MaxCalls == 2

InitInteractivity ==
    /\ UploadIdle
    /\ ComponentsIdle("_set_interactivity")
    /\ inter_desired \in [Toggles -> BOOLEAN]
    /\ inter_toggles \in [Toggles -> BOOLEAN]
    /\ inter_start = inter_toggles
    /\ inter_pc = "call"
    /\ inter_clicks = 0
    /\ inter_calls = 0

\* _set_interactivity(driver, comment, stitch, duet) is entered
SetInteractivityCall ==
    /\ inter_pc = "call"
    /\ inter_calls < MaxCalls
    /\ inter_calls' = inter_calls + 1
    /\ inter_start' = inter_toggles
    /\ inter_clicks' = 0
    /\ inter_pc' = "show_more"
    /\ UNCHANGED <<inter_frame, inter_toggles>>

\* the 'Show more' loop: clicked or not found, the toggles are as before
ShowMore ==
    /\ inter_pc = "show_more"
    /\ inter_pc' = "comment"
    /\ UNCHANGED <<inter_frame, inter_toggles, inter_start, inter_clicks, inter_calls>>

AfterToggle(t) ==
    CASE t = "comment" -> "stitch"
      [] t = "stitch"  -> "duet"
      [] t = "duet"    -> "done"

\* find_and_click_element: a selector finds a displayed element, which is clicked
\* (click, JavaScript click or ActionChains) whatever the arguments say
FindAndClick(t) ==
    /\ inter_pc = t
    /\ inter_toggles' = [inter_toggles EXCEPT ![t] = ~@]
    /\ inter_clicks' = inter_clicks + 1
    /\ inter_pc' = AfterToggle(t)
    /\ UNCHANGED <<inter_frame, inter_start, inter_calls>>

\* find_and_click_element: no selector finds a displayed element that takes a click
FindNothing(t) ==
    /\ inter_pc = t
    /\ inter_pc' = AfterToggle(t)
    /\ UNCHANGED <<inter_frame, inter_toggles, inter_start, inter_clicks, inter_calls>>

\* _set_interactivity returns None; the form may call it again
SetInteractivityReturn ==
    /\ inter_pc = "done"
    /\ inter_calls < MaxCalls
    /\ inter_pc' = "call"
    /\ UNCHANGED <<inter_frame, inter_toggles, inter_start, inter_clicks, inter_calls>>

NextInteractivity ==
    \/ SetInteractivityCall
    \/ ShowMore
    \/ \E t \in Toggles : FindAndClick(t)
    \/ \E t \in Toggles : FindNothing(t)
    \/ SetInteractivityReturn

SpecInteractivity == InitInteractivity /\ [][NextInteractivity]_vars

\* ====================================== the caption: upload._set_description
\* A text is a sequence of characters.  max_description_length stands for
\* config["max_description_length"], scaled down with the captions.
max_description_length == 5
MaxCaptionLen == 7

CaptionChars == {"a", "#", " "}
Captions == UNION {[1..n -> CaptionChars] : n \in 0..MaxCaptionLen}

\* str.split(" "): the pieces between single spaces, empty pieces included
RECURSIVE split(_)
split(text) ==
    IF \A i \in 1..Len(text) : text[i] # " " THEN <<text>>
    ELSE LET i == CHOOSE k \in 1..Len(text) :
                      text[k] = " " /\ \A j \in 1..(k - 1) : text[j] # " "
         IN  <<SubSeq(text, 1, i - 1)>> \o split(SubSeq(text, i + 1, Len(text)))

\* " ".join(words)
RECURSIVE join(_)
join(words) ==
    IF words = <<>> THEN <<>>
    ELSE IF Len(words) = 1 THEN words[1]
    ELSE words[1] \o <<" ">> \o join(Tail(words))

\* utils.clean_description: " ".join(description.split())
clean_description(description) ==
    IF description = <<>> THEN <<>>
    ELSE join(SelectSeq(split(description), LAMBDA w : w # <<>>))

\* the cut keeping max_length characters of the text before the ellipsis
truncate_string_EllipsisAfterMax(text, max_length) ==
    IF Len(text) <= max_length THEN text
    ELSE SubSeq(text, 1, max_length) \o <<".", ".", ".">>

\* utils.truncate_string, for max_length >= 3
truncate_string(text, max_length) ==
    IF Len(text) <= max_length THEN text
    ELSE SubSeq(text, 1, max_length - 3) \o <<".", ".", ".">>

InitCaption ==
    /\ UploadIdle
    /\ ComponentsIdle("_set_description")
    /\ caption_raw \in Captions
    /\ caption_text = <<>>
    /\ caption_pc = "call"
    /\ caption_sent = <<>>
    /\ typed = <<>>

\* lines 287-294: clean, truncate, return on an empty description
SetDescriptionCall ==
    /\ caption_pc = "call"
    /\ caption_text' = truncate_string(clean_description(caption_raw),
                                       max_description_length)
    /\ caption_pc' = IF caption_text' = <<>> THEN "done" ELSE "find_field"
    /\ UNCHANGED <<caption_frame, caption_sent, typed>>

\* lines 296-317: a selector finds the caption field, or none does and the
\* function returns
FindField ==
    /\ caption_pc = "find_field"
    /\ caption_pc' \in {"typing", "done"}
    /\ UNCHANGED <<caption_frame, caption_text, caption_sent, typed>>

NextWord == split(caption_text)[Len(caption_sent) + 1]

IsTag(word) == word # <<>> /\ word[1] = "#"

\* mutant of IsMention: the branch "elif word.startswith("@")" is missing
IsMention_Never(word) == FALSE

\* word.startswith("@")
IsMention(word) == word # <<>> /\ word[1] = "@"

\* str.lower on the characters of the model
lower(text) == [i \in 1..Len(text) |-> IF text[i] = "A" THEN "a" ELSE text[i]]

\* what the page shows in the suggestion box: the texts of the entries matched by
\* mention_box_user_id, top to bottom (user name, then display name)
MaxEntries == 2
EntryTexts == {<<"A", " ", "a">>, <<"a", "a">>}
Suggestions == UNION {[1..n -> EntryTexts] : n \in 0..MaxEntries}

\* mutant of EntryMatches: the names are compared as written
EntryMatches_CaseSensitive(user_elements, i, word) ==
    split(user_elements[i])[1] = Tail(word)

\* the entry at i carries the user name of the word: "username =
\* user_element.text.split(" ")[0]; if username.lower() == word[1:].lower()"
EntryMatches(user_elements, i, word) ==
    lower(split(user_elements[i])[1]) = lower(Tail(word))

\* the keys sent for a mention after the word, the space and the BACKSPACE: the
\* first entry that matches gets one DOWN per entry above it and ENTER ("for j in
\* range(i): send_keys(Keys.DOWN)" ... "break"); the "else" of the for loop and
\* the "except" of the wait send a space
mention_keys(word, box, user_elements) ==
    IF box /\ \E i \in 1..Len(user_elements) : EntryMatches(user_elements, i, word)
    THEN LET i == CHOOSE k \in 1..Len(user_elements) :
                      /\ EntryMatches(user_elements, k, word)
                      /\ \A j \in 1..(k - 1) : ~EntryMatches(user_elements, j, word)
         IN  [j \in 1..(i - 1) |-> <<"DOWN">>] \o << <<"ENTER">> >>
    ELSE << <<" ">> >>

\* a word of the loop is handled: it is logged with the calls made for it
Typed(word, box, user_elements, calls) ==
    /\ caption_sent' = Append(caption_sent, word)
    /\ typed' = Append(typed, [word |-> word, box |-> box,
                               user_elements |-> user_elements, calls |-> calls])
    /\ UNCHANGED <<caption_frame, caption_text, caption_pc>>

\* the loop body for a plain word: send_keys(word + " ")
TypeWord ==
    /\ caption_pc = "typing"
    /\ Len(caption_sent) < Len(split(caption_text))
    /\ ~IsTag(NextWord) /\ ~IsMention(NextWord)
    /\ Typed(NextWord, FALSE, <<>>, <<NextWord \o <<" ">>>>)

\* the loop body for a #hashtag: send_keys(word), send_keys(" " + BACKSPACE), then
\* ENTER when the suggestion box appears within the wait, a space when not
TypeTag ==
    /\ caption_pc = "typing"
    /\ Len(caption_sent) < Len(split(caption_text))
    /\ IsTag(NextWord)
    /\ \E box \in BOOLEAN :
         Typed(NextWord, box, <<>>,
               <<NextWord, <<" ", "BACKSPACE">>, IF box THEN <<"ENTER">> ELSE <<" ">>>>)

\* the loop body for an @mention: send_keys(word), send_keys(" "),
\* send_keys(BACKSPACE), then the suggestion entries are scanned when they appear
\* within the wait
TypeMention ==
    /\ caption_pc = "typing"
    /\ Len(caption_sent) < Len(split(caption_text))
    /\ IsMention(NextWord)
    /\ \E box \in BOOLEAN :
         \E user_elements \in IF box THEN Suggestions ELSE {<<>>} :
            Typed(NextWord, box, user_elements,
                  <<NextWord, <<" ">>, <<"BACKSPACE">>>>
                      \o mention_keys(NextWord, box, user_elements))

\* the loop ends: "Description set successfully"
TypingDone ==
    /\ caption_pc = "typing"
    /\ Len(caption_sent) = Len(split(caption_text))
    /\ caption_pc' = "done"
    /\ UNCHANGED <<caption_frame, caption_text, caption_sent, typed>>

\* a click or send_keys raises: the except branch of line 379
TypingRaises ==
    /\ caption_pc = "typing"
    /\ caption_pc' = "fallback"
    /\ UNCHANGED <<caption_frame, caption_text, caption_sent, typed>>

\* lines 381-385: _clear, then send_keys(saved_description); either may raise
\* and is only logged
Fallback ==
    /\ caption_pc = "fallback"
    /\ caption_sent' \in {<<caption_text>>, <<>>, caption_sent}
    /\ caption_pc' = "done"
    /\ UNCHANGED <<caption_frame, caption_text, typed>>

\* complete_upload_form, lines 208-223: _set_description has returned (it returns
\* None on every path), so the frame goes on through _set_interactivity and
\* _remove_split_window, which do not raise, to _post_video
AfterSetDescription ==
    /\ caption_pc = "done"
    /\ caption_pc' = "post_video"
    /\ UNCHANGED <<caption_frame, caption_text, caption_sent, typed>>

NextCaption ==
    \/ SetDescriptionCall
    \/ FindField
    \/ TypeWord
    \/ TypeTag
    \/ TypingDone
    \/ TypingRaises
    \/ Fallback
    \/ AfterSetDescription

SpecCaption == InitCaption /\ [][NextCaption]_vars

\* ---- captions with mentions: the same function, on shorter texts over more
\* ---- characters
MaxTokenLen == 5
TokenChars == {"a", "A", "#", "@", " "}

InitTokens ==
    /\ UploadIdle
    /\ ComponentsIdle("_set_description")
    /\ caption_raw \in UNION {[1..n -> TokenChars] : n \in 0..MaxTokenLen}
    /\ caption_text = <<>>
    /\ caption_pc = "call"
    /\ caption_sent = <<>>
    /\ typed = <<>>

NextTokens ==
    \/ SetDescriptionCall
    \/ FindField
    \/ TypeWord
    \/ TypeTag
    \/ TypeMention
    \/ TypingDone
    \/ TypingRaises
    \/ Fallback
    \/ AfterSetDescription

SpecTokens == InitTokens /\ [][NextTokens]_vars

\* ============================== tasks that ask for a publish time (schedule)
\* A requested publish time, relative to the moment of the call: none, before
\* the minimum lead time, within the accepted window, beyond the maximum horizon.
Schedules == {"none", "too_soon", "in_range", "too_late"}

\* upload_videos called with video dictionaries that may carry a schedule;
\* cli.main builds a dictionary of path and description only
InitSchedule ==
    /\ InitCommon
    /\ InitLib \/ InitCli
    /\ AuxIdle
    /\ video_schedules \in [1..Len(videos) -> Schedules]

SpecSchedule == InitSchedule /\ [][Next]_vars

\* =========================== video dictionaries: upload._convert_videos_dict
\* A dictionary is a function from its keys to its values.
CallerDicts ==
    { [path |-> "a.mp4", description |-> "hello"],
      [k \in {" Path"} |-> "a.mp4"],
      [file |-> "a.mp4", text |-> "hello"],
      [file |-> "a.mp4"],
      [path |-> "missing.mp4", description |-> "hello"],
      [text |-> "hello"] }

CallerLists == UNION {[1..n -> CallerDicts] : n \in 0..MaxVideos}

\* config["valid_path_names"][0] and config["valid_descriptions"][0]: the keys
\* the loop of upload_videos reads
correct_path == "path"
correct_description == "description"

\* k.strip().lower()
strip_lower(k) == IF k = " Path" THEN "path" ELSE k

\* line 989: a new dictionary with the keys normalised
normalised(d) ==
    [k \in {strip_lower(x) : x \in DOMAIN d} |->
        d[CHOOSE x \in DOMAIN d : strip_lower(x) = k]]

\* elem[key] = value
set_item(d, key, value) ==
    [k \in DOMAIN d \cup {key} |-> IF k = key THEN value ELSE d[k]]

\* lines 995-1008: "raise" or the dictionary with its path set
with_path(elem) ==
    IF correct_path \in DOMAIN elem
      THEN IF check_valid_path(elem[correct_path])
             THEN [raised |-> FALSE, elem |-> elem]
             ELSE [raised |-> TRUE, elem |-> elem]
    ELSE IF \E k \in DOMAIN elem : check_valid_path(elem[k])
      THEN [raised |-> FALSE,
            elem |-> set_item(elem, correct_path,
                              elem[CHOOSE k \in DOMAIN elem : check_valid_path(elem[k])])]
      ELSE [raised |-> TRUE, elem |-> elem]

\* lines 1010-1018: the dictionary with its description set
with_description(elem) ==
    IF correct_description \in DOMAIN elem THEN elem
    ELSE IF \E k \in DOMAIN elem : ~check_valid_path(elem[k])
      THEN set_item(elem, correct_description,
                    elem[CHOOSE k \in DOMAIN elem : ~check_valid_path(elem[k])])
      ELSE set_item(elem, correct_description, "")

\* the caller's dictionaries after the loop body wrote into element i itself
written_in_place(dicts, i, elem) == [dicts EXCEPT ![i] = elem]

\* the caller's dictionaries after the loop body for element i: line 989 rebinds
\* elem to a new dictionary, so every later assignment goes to the copy
after_loop_body(dicts, i, elem) == dicts

InitConvert ==
    /\ UploadIdle
    /\ ComponentsIdle("_convert_videos_dict")
    /\ videos_list_of_dictionaries \in CallerLists
    /\ dictionaries_at_call = videos_list_of_dictionaries
    /\ return_list = <<>>
    /\ convert_pc = "call"

\* lines 975-987
ConvertCall ==
    /\ convert_pc = "call"
    /\ convert_pc' = IF videos_list_of_dictionaries = <<>> THEN "raised" ELSE "loop"
    /\ UNCHANGED <<convert_frame, videos_list_of_dictionaries, return_list>>

\* lines 988-1020: one iteration of the loop
ConvertElem ==
    /\ convert_pc = "loop"
    /\ Len(return_list) < Len(videos_list_of_dictionaries)
    /\ LET i == Len(return_list) + 1
           p == with_path(normalised(videos_list_of_dictionaries[i]))
       IN  /\ videos_list_of_dictionaries' =
                 after_loop_body(videos_list_of_dictionaries, i,
                                 IF p.raised THEN p.elem ELSE with_description(p.elem))
           /\ IF p.raised
                THEN convert_pc' = "raised" /\ UNCHANGED return_list
                ELSE /\ return_list' = Append(return_list, with_description(p.elem))
                     /\ UNCHANGED convert_pc
    /\ UNCHANGED convert_frame

\* line 1022
ConvertReturn ==
    /\ convert_pc = "loop"
    /\ Len(return_list) = Len(videos_list_of_dictionaries)
    /\ convert_pc' = "returned"
    /\ UNCHANGED <<convert_frame, videos_list_of_dictionaries, return_list>>

NextConvert == ConvertCall \/ ConvertElem \/ ConvertReturn

SpecConvert == InitConvert /\ [][NextConvert]_vars

\* ================================== selector lists: the element that is used
\* _set_description and _post_video each walk an ordered list of selectors and keep
\* an element.  The page is given by what each selector of the list matches: nothing
\* (the wait times out), an element that is not displayed, or a displayed one.  The
\* lists of five and nine selectors are scaled to MaxSelectors.
MaxSelectors == 3

Matches == {"absent", "hidden", "visible"}

\* _post_video: click_methods, the four lambdas in list order
click_methods == <<"post_button.click", "execute_script(arguments[0].click)",
                   "ActionChains.move_to_element.click",
                   "execute_script(querySelector(button[type=submit]).click)">>

InitLookup ==
    /\ UploadIdle
    /\ ComponentsIdle("selectors")
    /\ selector_list \in {"description_selectors", "post_selectors"}
    /\ page \in [1..MaxSelectors -> Matches]
    /\ selector_i = 1
    /\ desc_element = 0
    /\ post_button = 0
    /\ lookup_pc = "loop"
    /\ click_raises \in IF selector_list = "post_selectors"
                        THEN [1..Len(click_methods) -> BOOLEAN]
                        ELSE {<<>>}
    /\ clicks_tried = <<>>

\* _set_description, the loop body: "desc_element = WebDriverWait(driver, 5).until(
\* EC.presence_of_element_located(...))" binds whatever is present; "if
\* desc_element.is_displayed(): break"; a timeout goes to "except: continue" and
\* leaves desc_element as it is
DescriptionSelector ==
    /\ lookup_pc = "loop"
    /\ selector_list = "description_selectors"
    /\ selector_i <= Len(page)
    /\ desc_element' = IF page[selector_i] = "absent" THEN desc_element ELSE selector_i
    /\ IF page[selector_i] = "visible"
         THEN lookup_pc' = "after_loop" /\ UNCHANGED selector_i
         ELSE selector_i' = selector_i + 1 /\ UNCHANGED lookup_pc
    /\ UNCHANGED <<lookup_frame, post_button, clicks_tried>>

\* _set_description after the loop: "if not desc_element: logger.error(...); return",
\* otherwise desc_element is clicked and typed into
DescriptionLookupEnd ==
    /\ selector_list = "description_selectors"
    /\ lookup_pc = "after_loop" \/ (lookup_pc = "loop" /\ selector_i > Len(page))
    /\ lookup_pc' = IF desc_element = 0 THEN "not_found" ELSE "found"
    /\ UNCHANGED <<lookup_frame, selector_i, desc_element, post_button, clicks_tried>>

\* _post_video, the loop body: "element = WebDriverWait(driver, 5).until(
\* EC.element_to_be_clickable(...))" times out unless the match is displayed; "if
\* element.is_displayed(): post_button = element; break"
PostSelector ==
    /\ lookup_pc = "loop"
    /\ selector_list = "post_selectors"
    /\ selector_i <= Len(page)
    /\ IF page[selector_i] = "visible"
         THEN post_button' = selector_i /\ lookup_pc' = "after_loop" /\ UNCHANGED selector_i
         ELSE selector_i' = selector_i + 1 /\ UNCHANGED <<post_button, lookup_pc>>
    /\ UNCHANGED <<lookup_frame, desc_element, clicks_tried>>

\* _post_video after the loop: "if not post_button: raise Exception("Could not find
\* post button")", otherwise post_button is scrolled to and clicked
PostLookupEnd ==
    /\ selector_list = "post_selectors"
    /\ lookup_pc = "after_loop" \/ (lookup_pc = "loop" /\ selector_i > Len(page))
    /\ lookup_pc' = IF post_button = 0 THEN "not_found" ELSE "found"
    /\ UNCHANGED <<lookup_frame, selector_i, desc_element, post_button, clicks_tried>>

\* _post_video, the body of "for click_method in click_methods": the method is
\* called; when it returns, "click_success = True ... break"; when it raises,
\* "except: continue"
PostClick ==
    /\ selector_list = "post_selectors"
    /\ lookup_pc \in {"found", "clicking"}
    /\ Len(clicks_tried) < Len(click_methods)
    /\ clicks_tried' = Append(clicks_tried, click_methods[Len(clicks_tried) + 1])
    /\ lookup_pc' = IF click_raises[Len(clicks_tried) + 1] THEN "clicking" ELSE "clicked"
    /\ UNCHANGED <<lookup_frame, selector_i, desc_element, post_button>>

\* _post_video after the loop: "if not click_success: raise Exception("All click
\* methods failed")"
PostClickFailed ==
    /\ selector_list = "post_selectors"
    /\ lookup_pc = "clicking"
    /\ Len(clicks_tried) = Len(click_methods)
    /\ lookup_pc' = "click_failed"
    /\ UNCHANGED <<lookup_frame, selector_i, desc_element, post_button, clicks_tried>>

NextLookup ==
    \/ DescriptionSelector
    \/ DescriptionLookupEnd
    \/ PostSelector
    \/ PostLookupEnd
    \/ PostClick
    \/ PostClickFailed

SpecLookup == InitLookup /\ [][NextLookup]_vars

\* ================================================================ claims
InFailed(i) == \E k \in 1..Len(failed) : failed[k] = i
MissingAtCall(i) == videos[i] \notin InitialFiles
SetupErrors == {"RuntimeError", "BrowserError", "ProxyError", "AuthError"}

\* C1: every task for which complete_upload_form raised after its retries were
\* exhausted is in the failed list that upload_videos returns.
C1_RaisedTasksAreInFailed ==
    pc = "returned" => \A i \in raised_tasks : InFailed(i)

\* C2: the command-line upload exits with status zero only on full success: a task
\* that failed (also after all retries) or a fatal setup error gives a non-zero status.
C2_ExitZeroOnlyOnFullSuccess ==
    (pc = "exited" /\ exit_status = 0)
        => (error = "none" /\ failed = <<>> /\ raised_tasks = {})

\* C3: for a batch in which some tasks name a path that does not exist, upload_videos
\* returns normally, the failed list holds each such task, the controller is never
\* called for them, and the tasks whose path exists are delegated to the controller.
C3_MissingPathsAreSkipped ==
    (pc \in {"returned", "raised"} /\ \E i \in 1..Len(videos) : MissingAtCall(i))
        => /\ pc = "returned"
           /\ \A i \in 1..Len(videos) :
                /\ MissingAtCall(i) => (InFailed(i) /\ i \notin delegated)
                /\ videos[i] \in fs => i \in delegated

\* C4: an exception of complete_upload_form for one task never leaves upload_videos,
\* and the tasks are processed in list order with every later task still processed:
\* upload_videos raises only before the loop, the iterations started are 1, 2, ... in
\* order, and at the return every task of the batch has had its iteration.
C4_TaskFailureNeverAbortsBatch ==
    /\ pc = "raised" => (error \in SetupErrors /\ raised_tasks = {} /\ processed = <<>>)
    /\ processed = [k \in 1..idx |-> k]
    /\ raised_tasks \subseteq 1..idx
    /\ pc = "returned" => idx = Len(videos)
    /\ pc = "task_except" => (form_result = "raised" /\ idx \in raised_tasks)

\* C4 witness: the controller raised for task 1 and upload_videos returned after
\* delegating task 2 as well.
C4_Witness ==
    /\ pc = "returned"
    /\ 1 \in raised_tasks
    /\ processed = <<1, 2>>
    /\ 2 \in delegated

\* C5: complete_upload_form called with num_retries = n makes at most n+1 executions
\* of the step sequence; it returns as soon as one execution ends without an
\* exception (every earlier one raised) and it raises FailedToUpload, carrying the
\* error of the last execution, exactly when all n+1 executions raised.
C5_BoundedRetry ==
    /\ executions <= num_retries + 1
    /\ raised_executions <= executions
    /\ form_result = "returned" => raised_executions = executions - 1
    /\ form_result = "raised"
         => /\ executions = num_retries + 1
            /\ raised_executions = num_retries + 1
            /\ carried = last_error
            /\ carried # "none"
    /\ (form_result = "running" /\ raised_executions = num_retries + 1)
         => (pc = "form_except" /\ retries_left = 0)
    /\ form_result = "running"
         => retries_left + executions
              = num_retries + (IF pc = "go_to_upload" THEN 0 ELSE 1)

\* C5 witness: with one retry configured, both executions raised and FailedToUpload
\* left the controller with the second execution's error.
C5_Witness ==
    /\ num_retries = 1
    /\ form_result = "raised"
    /\ executions = 2
    /\ carried = "PostFailed"

\* C6: when upload_videos starts the next task, no activity started for an earlier
\* task, its file-injection worker included, still runs against the driver.
C6_NoWorkerOutlivesItsTask ==
    (form_result = "running" /\ executions = 0) => stale_workers = 0

\* C7: when the post control was clicked and neither a success indicator nor the URL
\* change confirmed the post, the attempt does not fail: the upload counts as done.
C7_UnconfirmedPostIsPresumedPosted ==
    post_outcome = "unconfirmed" => form_result = "returned"

\* C8: when the configured proxy fails its check, upload_videos raises before the
\* session is resolved and before the controller is called for any task; no task is
\* attempted and no failed list is returned.
C8_BrokenProxyAbortsRun ==
    proxy_result = "broken"
        => /\ pc \in {"raised", "exited"}
           /\ error = "ProxyError"
           /\ auth_calls = 0
           /\ delegated = {}
           /\ processed = <<>>
           /\ failed = <<>>
           /\ pc = "exited" => exit_status = 1

\* C8 witness: a run with a proxy whose check failed has ended with the proxy error.
C8_Witness ==
    /\ proxy = "set"
    /\ proxy_result = "broken"
    /\ pc = "raised"
    /\ Len(videos) = 2

\* C9: on every way upload_videos ends after the Browser Handle was acquired, the
\* handle was quit if quit_on_end is set and is left open if it is not.
C9_HandleReleasedAsConfigured ==
    (pc \in {"returned", "raised"} /\ driver # "none")
        => (driver = "quit" <=> quit_on_end)

\* C10: get_browser is called at most once and never when a browser_agent is given;
\* authenticate_agent is called at most once, and exactly once before the first
\* task is processed; neither is repeated per task or per retry.
C10_OneHandleOneSession ==
    /\ get_browser_calls <= 1
    /\ browser_agent => get_browser_calls = 0
    /\ (~browser_agent /\ driver # "none") => get_browser_calls = 1
    /\ auth_calls <= 1
    /\ (processed # <<>> \/ pc \in {"loop", "returned"}) => auth_calls = 1

\* C10 witness: a batch of two tasks, the second one retried, has run to its end on
\* one browser and one session resolution.
C10_Witness ==
    /\ pc = "returned"
    /\ Len(processed) = 2
    /\ executions = 2
    /\ get_browser_calls = 1
    /\ auth_calls = 1

\* ------------------------------------------------- credentials (C11..C13)
\* the credential variants the arguments populate
HasSession(a) == a.sessionid
HasCookieSource(a) == a.cookies.given \/ a.cookies_str # <<>> \/ a.cookies_list # <<>>
HasLogin(a) == a.username /\ a.password
HalfLogin(a) == (a.username /\ ~a.password) \/ (a.password /\ ~a.username)
Variants(a) ==
    (IF HasSession(a) THEN 1 ELSE 0) + (IF HasCookieSource(a) THEN 1 ELSE 0)
        + (IF HasLogin(a) THEN 1 ELSE 0)

\* C11: constructing an AuthBackend with none of {session id, cookie source,
\* username+password} fails with InsufficientAuth, and constructing it with exactly
\* one of the three succeeds, whatever the supplied cookie source holds.
C11_NoneFailsOneSucceeds ==
    (auth_pc \in {"constructed", "raised"} /\ ~HalfLogin(auth_args)) =>
        /\ Variants(auth_args) = 0 => auth_pc = "raised"
        /\ Variants(auth_args) = 1 => auth_pc = "constructed"

\* C12: constructing an AuthBackend with exactly one of username / password fails
\* with InsufficientAuth, whatever else is supplied.
C12_HalfLoginFails ==
    (auth_pc \in {"constructed", "raised"} /\ HalfLogin(auth_args)) => auth_pc = "raised"

\* C13: supplying two or more credential variants is rejected, by
\* validate_uploader_args on the command line and by the AuthBackend constructor.
C13_ExactlyOneVariant ==
    /\ \A a \in CliArgs : auth_methods(a) > 1 => validate_uploader_args(a) # "ok"
    /\ auth_pc = "constructed" => Variants(auth_args) = 1

\* --------------------------------------------- cookie sources (C14..C16)
\* a well-formed Netscape row: 7 tab-separated fields, not a comment
WellFormedRow(line) == Len(line) = 7 /\ ~StartsWithHash(line)

\* a line the parsers are to skip: blank, #-prefixed or fewer than 7 fields
Skippable(line) == IsEmptyLine(line) \/ StartsWithHash(line) \/ Len(line) < 7

ValidLines(lines) == SelectSeq(lines, LAMBDA l : ~Skippable(l))

\* C14: for a cookie input made of well-formed Netscape rows, get_cookies returns
\* one record per row, in row order, with domain, path, name and value equal to
\* fields 1, 3, 6 and 7, and a secure flag that is true iff field 4 is exactly TRUE.
C14_OneRecordPerRow ==
    (cookie_pc = "returned" /\ \A i \in 1..Len(cookie_input) : WellFormedRow(cookie_input[i]))
    => /\ Len(cookie_result.cookies) = Len(cookie_input)
       /\ \A i \in 1..Len(cookie_input) :
            LET c == cookie_result.cookies[i]
                row == cookie_input[i]
            IN  /\ c.domain = row[1] /\ c.path = row[3]
                /\ c.name = row[6] /\ c.value = row[7]
                /\ "secure" \in DOMAIN c
                /\ c.secure = (row[4] = "TRUE")

C16_JsonFallback ==
    (cookie_pc = "returned" /\ cookie_parser \in {"package", "root_path", "root_str"}
        /\ ValidLines(cookie_input) = <<>> /\ IsJson(cookie_input))
    => cookie_result.cookies = json_loads(cookie_input)

\* ----------------------------------------------------- interactivity (C17)
\* C17: _set_interactivity clicks a toggle only if its state differs from the desired
\* one: a call that finds all three toggles as desired performs no click, and a
\* second call in a row leaves the toggles as the first call left them.
C17_ClicksOnlyWhereStateDiffers ==
    inter_pc = "done" =>
        /\ \A t \in Toggles :
               inter_toggles[t] # inter_start[t] => inter_start[t] # inter_desired[t]
        /\ inter_start = inter_desired => inter_clicks = 0
        /\ inter_calls >= 2 => inter_toggles = inter_start

\* ----------------------------------------------------------- caption (C18)
\* s is a prefix of t
IsPrefix(s, t) == Len(s) <= Len(t) /\ SubSeq(t, 1, Len(s)) = s

\* C18: a caption whose cleaned length exceeds the configured maximum is truncated
\* before any key is sent and the truncated text has exactly the maximum length; a
\* caption no longer than the maximum is typed as cleaned.  Every text sent to the
\* field is a word of the truncated caption, in order, or the whole of it.
C18_TruncatedBeforeTyping ==
    LET cleaned == clean_description(caption_raw)
    IN  /\ caption_pc \in {"idle", "call"} => caption_sent = <<>>
        /\ caption_pc \notin {"idle", "call"} =>
            /\ Len(cleaned) > max_description_length
                   => Len(caption_text) = max_description_length
            /\ Len(cleaned) <= max_description_length => caption_text = cleaned
            /\ \/ IsPrefix(caption_sent, split(caption_text))
               \/ caption_sent = <<caption_text>>
            /\ caption_pc = "done" /\ caption_sent # <<>> /\ Len(caption_sent) = Len(split(caption_text))
                   => join(caption_sent) = caption_text

\* C18 witness: a caption longer than the maximum has been typed to its end, word
\* by word, from the truncated text.
C18_Witness ==
    /\ caption_pc = "done"
    /\ Len(clean_description(caption_raw)) > max_description_length
    /\ Len(caption_text) = max_description_length
    /\ Len(caption_sent) > 1
    /\ join(caption_sent) = caption_text

\* ---------------------------------------------------------- schedule (C19)
OutOfRange(i) == video_schedules[i] \in {"too_soon", "too_late"}

\* C19: a task whose requested publish time is before the minimum lead time or
\* beyond the maximum horizon is never handed to the upload form, and once the
\* loop is past it, it is in the failed list.
C19_OutOfRangeScheduleRejected ==
    \A i \in 1..Len(video_schedules) :
        OutOfRange(i) =>
            /\ i \notin delegated
            /\ (pc = "returned" => InFailed(i))

DriverSteps == {"go_to_upload", "remove_cookies_window", "set_description",
                "set_interactivity", "remove_split_window", "post_video"}

\* the threads that issue commands to the driver now: the workers of abandoned
\* frames, the worker of the current frame, the orchestrating thread
DriverUsers ==
    stale_workers + (IF upload_thread = "running" THEN 1 ELSE 0)
                  + (IF pc \in DriverSteps THEN 1 ELSE 0)

\* C21: the driver is used by one thread at a time: never a worker together with the
\* orchestrating thread, never two workers of successive attempts.
C21_OneThreadOnTheDriver == DriverUsers <= 1

\* ------------------------------------------------- clicks on post (C22)
\* C22: across all attempts for a task the post button is successfully clicked at
\* most once.
C22_PostClickedAtMostOnce == post_clicks <= 1

\* ------------------------------------------- the step sequence (C23..C25)
\* the steps of one attempt, in the order of the try block
StepOrder == <<"_go_to_upload", "_remove_cookies_window", "_set_video",
               "_set_description", "_set_interactivity", "_post_video">>

InStepOrder(step) == step # "_remove_split_window"

\* the steps that follow the injection of the file
AfterInjection == {"_set_description", "_set_interactivity", "_remove_split_window",
                   "_post_video"}

StepsRun == {steps[i] : i \in 1..Len(steps)}

\* C23: within one attempt the steps run in the order navigate, dismiss banner,
\* inject file, set caption, set interactivity, submit post, each at most once; the
\* post step runs only after the injection of the same attempt reported success;
\* and no step runs after a step of the attempt has raised.
C23_StepsRunInOrder ==
    /\ [](/\ IsPrefix(SelectSeq(steps, InStepOrder), StepOrder)
          /\ "_post_video" \in StepsRun =>
                upload_complete_event /\ upload_success /\ upload_error = "none")
    /\ [][last_error # "none" /\ steps' # steps => steps' = <<>>]_vars

\* C23 witness: an attempt has run every step, the post step last, and returned.
C23_Witness ==
    /\ form_result = "returned"
    /\ SelectSeq(steps, InStepOrder) = StepOrder
    /\ upload_success

\* C24: when a step of an attempt raises and retries remain, the next attempt starts
\* at the navigation step, with the same driver and the same task, and with exactly
\* one retry fewer.
C24_RetryRestartsFromNavigation ==
    /\ [][pc = "form_except" /\ retries_left > 0 /\ pc' # pc =>
            /\ pc' = "go_to_upload"
            /\ steps' = <<>>
            /\ retries_left' = retries_left - 1
            /\ driver' = driver
            /\ idx' = idx
            /\ videos' = videos]_vars
    /\ [][steps = <<>> /\ steps' # steps => steps' = <<"_go_to_upload">>]_vars

\* C24 witness: the second attempt for a task has started at the navigation step
\* after the first one raised.
C24_Witness ==
    /\ executions = 2
    /\ raised_executions = 1
    /\ steps = <<"_go_to_upload">>
    /\ retries_left = num_retries - 1

\* C25: when the event wait times out the orchestrating thread leaves the attempt
\* with a timeout error, and when the worker stored an error that error is raised;
\* both reach the retry handler, and the caption, interactivity and post steps are
\* not run in that attempt.
C25_FailedInjectionEndsAttempt ==
    /\ [](last_error \in {"UploadTimeout", "SetVideoFailed"} =>
            StepsRun \cap AfterInjection = {})
    /\ [][pc = "wait_upload" /\ pc' # pc /\ ~upload_complete_event =>
            pc' = "form_except" /\ last_error' = "UploadTimeout"]_vars
    /\ [][pc = "wait_upload" /\ pc' # pc /\ upload_complete_event /\ upload_error # "none" =>
            pc' = "form_except" /\ last_error' = upload_error]_vars

\* C25 witness: the event wait timed out with a retry left.
C25_Witness ==
    /\ pc = "form_except"
    /\ last_error = "UploadTimeout"
    /\ retries_left > 0
    /\ steps = <<"_go_to_upload", "_remove_cookies_window", "_set_video">>

\* ------------------------------------------------ the worker's cells (C26)
\* the run with a scheduler that lets a worker past its try statement go on
SpecWorker == Init /\ [][Next]_vars /\ WF_vars(WorkerFinally)

\* C26: once _set_video has returned or raised, the worker sets the completion
\* event (unless the frame was given up meanwhile); whenever the event is set,
\* exactly one of the result cells is populated; hence the "Video upload failed"
\* branch is never taken.
C26_OneCellWhenEventSet ==
    /\ [](upload_complete_event => (upload_success <=> upload_error = "none"))
    /\ [](last_error # "UploadFailedUnknown")
    /\ (upload_thread = "stored") ~> (upload_complete_event \/ upload_thread = "none")

\* C26 witness: the orchestrating thread sees the event set and the error cell
\* populated, the success cell not.
C26_Witness ==
    /\ pc = "wait_upload"
    /\ upload_complete_event
    /\ upload_thread = "finished"
    /\ upload_error = "SetVideoFailed"
    /\ ~upload_success

\* -------------------------------------- the completion indicator (C27)
\* C27: when the path was sent and no completion indicator resolved in the wait,
\* the injection step fails and the attempt does not go on to the caption and
\* post steps: these steps run only after an indicator resolved.
C27_NoIndicatorFailsInjection ==
    StepsRun \cap AfterInjection # {} => complete_found

\* --------------------------------------------- caption before post (C28)
\* the caption text is in the field: typed word by word to the end, or sent whole
\* by the fallback
CaptionEntered ==
    \/ join(caption_sent) = caption_text /\ Len(caption_sent) = Len(split(caption_text))
    \/ caption_sent = <<caption_text>>

\* C28: for a task with a non-empty caption the post step is reached only if the
\* caption text was entered into the caption field in that attempt.
C28_PostOnlyWithCaption ==
    caption_pc = "post_video" /\ caption_text # <<>> => CaptionEntered

\* ---------------------------------------------- best-effort steps (C29)
\* C29: the consent-banner step and the interactivity step return normally for
\* every page state and every driver error: control goes on to the next statement
\* of the try block, no error is recorded and no retry is consumed.
C29_BestEffortStepsReturn ==
    /\ [][pc = "remove_cookies_window" /\ pc' # pc =>
            /\ pc' = "start_upload"
            /\ UNCHANGED <<last_error, retries_left, raised_executions>>]_vars
    /\ [][pc = "set_interactivity" /\ pc' # pc =>
            /\ pc' \in {"remove_split_window", "post_video"}
            /\ UNCHANGED <<last_error, retries_left, raised_executions>>]_vars

\* C29 witness: the interactivity step met a driver error after the banner step had
\* run, and the attempt goes on without an error.
C29_Witness ==
    /\ step_outcome = "driver_error"
    /\ steps = <<"_go_to_upload", "_remove_cookies_window", "_set_video",
                 "_set_description", "_set_interactivity">>
    /\ pc \in {"remove_split_window", "post_video"}
    /\ last_error = "none"
    /\ raised_executions = 0

\* ------------------------------------------------ the element used (C30)
\* the element the function goes on with, 0 when it has none
UsedElement == IF selector_list = "description_selectors" THEN desc_element ELSE post_button

\* the lowest index whose selector matches a displayed element, 0 when none does
FirstVisible ==
    IF \E i \in 1..Len(page) : page[i] = "visible"
    THEN CHOOSE i \in 1..Len(page) :
            page[i] = "visible" /\ \A j \in 1..(i - 1) : page[j] # "visible"
    ELSE 0

\* C30: for the caption field and for the post button, the element used is the match
\* of the lowest-indexed selector that yields a displayed element; an element that is
\* not displayed is never used; when no selector yields a displayed element the
\* lookup ends as not found.
C30_FirstVisibleCandidateUsed ==
    /\ lookup_pc = "found" => UsedElement # 0 /\ UsedElement = FirstVisible
    /\ lookup_pc = "not_found" => FirstVisible = 0
    /\ FirstVisible = 0 => lookup_pc # "found"

\* ------------------------------------------------ click strategies (C31)
\* the three strategies of the specification: direct click, scripted click,
\* simulated pointer move and click
ClickStrategies == SubSeq(click_methods, 1, 3)

\* C31: the click strategies are tried in the order direct, scripted, simulated
\* pointer, each at most once, a later one only after every earlier one raised and
\* none after one succeeded; once the three have failed the click is reported as
\* failed and no further strategy is attempted.
C31_ThreeClickStrategiesInOrder ==
    /\ IsPrefix(clicks_tried, ClickStrategies)
    /\ \A k \in 1..(Len(clicks_tried) - 1) : click_raises[k]
    /\ lookup_pc = "clicked" => ~click_raises[Len(clicks_tried)]
    /\ lookup_pc = "click_failed" => clicks_tried = ClickStrategies

\* --------------------------------------------- the fallback caption (C32)
\* C32: when typing the caption raised, the field is cleared and the cleaned,
\* untruncated caption is typed once, whole; _set_description then returns.
C32_FallbackTypesUntruncatedCaption ==
    [][caption_pc = "fallback" /\ caption_pc' # caption_pc =>
            /\ caption_pc' = "done"
            /\ caption_sent' = <<clean_description(caption_raw)>>]_vars

\* ---------------------------------------------- mentions and tokens (C33, C34)
StartsWith(word, c) == word # <<>> /\ word[1] = c

\* the user name an entry of the suggestion list shows, and the one a word names,
\* both without regard to case
Folded(text) == [i \in 1..Len(text) |-> IF text[i] = "A" THEN "a" ELSE text[i]]
EntryNames(e, i) == Folded(split(e.user_elements[i])[1]) = Folded(Tail(e.word))

\* the calls made for a mention after the word, the space and the BACKSPACE
AfterWord(e) == SubSeq(e.calls, 4, Len(e.calls))

C34_TokensInOrderByKind ==
    /\ [](/\ Len(typed) <= Len(split(caption_text))
          /\ \A k \in 1..Len(typed) :
                LET e == typed[k]
                IN  /\ e.word = split(caption_text)[k]
                    /\ IF StartsWith(e.word, "#")
                         THEN /\ Len(e.calls) = 3
                              /\ e.calls[1] = e.word
                              /\ e.calls[2] = <<" ", "BACKSPACE">>
                              /\ e.calls[3] \in {<<"ENTER">>, <<" ">>}
                       ELSE IF StartsWith(e.word, "@")
                         THEN /\ Len(e.calls) >= 4
                              /\ SubSeq(e.calls, 1, 3) = <<e.word, <<" ">>, <<"BACKSPACE">>>>
                       ELSE e.calls = <<e.word \o <<" ">>>>)
    /\ [][caption_pc = "typing" /\ caption_pc' = "done" =>
            Len(typed) = Len(split(caption_text))]_vars

\* C34 witness: a caption of a plain word, a hashtag and a mention has been typed to
\* its end, in that order.
C34_Witness ==
    /\ caption_pc = "done"
    /\ Len(typed) = 3
    /\ typed[1].calls = <<typed[1].word \o <<" ">>>>
    /\ StartsWith(typed[2].word, "#")
    /\ StartsWith(typed[3].word, "@")

\* ------------------------------------------------- the callback (C37)
\* C37: a supplied on_complete callback is called exactly once for every task, after
\* the task's processing has finished (succeeded, failed or skipped) and before the
\* next task starts: whenever the loop is between two tasks or over, the calls are
\* the tasks handled so far, in order.
C37_CallbackOncePerTask ==
    pc \in {"loop", "returned"} => on_complete_calls = [i \in 1..idx |-> i]

\* ------------------------------------------ validation before the browser (C38)
\* a browser action has been taken: a browser created or handed over, the proxy
\* verified, the session resolved
BrowserTouched ==
    get_browser_calls > 0 \/ driver # "none" \/ proxy_result # "unchecked" \/ auth_calls > 0

\* C38: input validation precedes every browser action: when the video list is empty
\* or a task names a path that does not exist, upload_videos raises RuntimeError
\* before a browser is created, the proxy verified or the session resolved.
C38_ValidationBeforeBrowser ==
    /\ BrowserTouched =>
          Len(videos) > 0 /\ \A i \in 1..Len(videos) : videos[i] \in InitialFiles
    /\ (pc # "convert" /\ caller = "lib"
            /\ (Len(videos) = 0 \/ \E i \in 1..Len(videos) : MissingAtCall(i))) =>
          pc = "raised" /\ error = "RuntimeError" /\ ~BrowserTouched

\* C38 witness: a batch whose second task names a missing path was refused with no
\* browser action taken.
C38_Witness ==
    /\ pc = "raised"
    /\ error = "RuntimeError"
    /\ Len(videos) = 2
    /\ videos[1] \in InitialFiles
    /\ videos[2] \notin InitialFiles
    /\ ~BrowserTouched

\* ------------------------------------------------ interactive login (C35)
\* C35: interactive login always ends in one of two ways: it returns the browser's
\* cookies once the logged-in cookie has appeared, or it raises InsufficientAuth once
\* the explicit wait has elapsed without it; it never returns anything else and never
\* returns for a session in which the logged-in cookie did not appear.
C35_LoginReturnsCookiesOrInsufficientAuth ==
    /\ login_polls <= MaxPolls + 1
    /\ login_result # "none" =>
          \/ login_result = "cookies" /\ logged_in
          \/ login_result = "InsufficientAuth" /\ ~logged_in

\* ------------------------------------- cookies before credentials (C36)
\* the cookies the constructor resolved, which authenticate_agent finds in self.cookies
ResolvedCookies ==
    IF auth_revision = "package" THEN package_init(auth_args).cookies
                                 ELSE root_init(auth_args).cookies

C39_SameDriverReturned ==
    agent_pc = "returned" => agent_result = "driver"

====
